---- MODULE Spec2Model ----
(***************************************************************************)
(* Breadboard state machine of the MCTS topology generator                 *)
(* (src/core/topology_game_board.py).                                      *)
(*                                                                         *)
(* Python objects are modelled with reference semantics: every mutable     *)
(* container of a Breadboard (uf_parent, active_nets, placed_wires,        *)
(* placed_components, row_pin_index) lives at an address of `heap`, and a  *)
(* board object is a record of addresses plus its scalar fields.  The      *)
(* methods are operators over the dereferenced board (`self`), written in  *)
(* the order of the Python statements.                                     *)
(***************************************************************************)
EXTENDS Integers, Sequences, FiniteSets, TLC

\* Board size passed to Breadboard(rows) by the callers that build one board size
BoardRows == 8
\* apply_action calls explored from the fresh board
MaxActions == 2
\* apply_action calls explored from a board built by a prefix of a script
MaxExtraActions == 1
\* apply_action calls explored when the caller passes arbitrary action tuples
MaxAnyActions == 2
\* _evaluate_circuit calls explored along one chain of boards
MaxEvaluations == 2
\* Nodes of the search tree, and visits recorded in it
MaxNodes == 3
MaxVisits == 3

\* ROWS is self.ROWS, the rows argument of Breadboard(rows): every board of a
\* behaviour has the row count of the board it was built from.  nodes, mcts
\* and call are the MCTSNode objects, the MCTS object and the last method
\* call on them; they are empty where no search tree is built.
VARIABLES ROWS, heap, boards, offered, result, legal, last, budget, evaluations,
          nodes, mcts, call

vars == <<ROWS, heap, boards, offered, result, legal, last, budget, evaluations,
          nodes, mcts, call>>

tree_vars == <<nodes, mcts, call>>

----------------------------------------------------------------------------
\* Component metadata

COMPONENT_CATALOG ==
    <<"resistor", "capacitor", "inductor", "diode",
      "nmos3", "pmos3", "npn", "pnp", "vin", "vout", "wire">>

CatalogTypes == {COMPONENT_CATALOG[i] : i \in DOMAIN COMPONENT_CATALOG}

pin_count(comp_type) ==
    CASE comp_type \in {"resistor", "capacitor", "inductor", "diode", "wire"} -> 2
      [] comp_type \in {"nmos3", "pmos3", "npn", "pnp"} -> 3
      [] comp_type \in {"vin", "vout"} -> 1

can_place_multiple(comp_type) == comp_type \notin {"vin", "vout"}

MIN_ROWS == 6
MIN_ACTIVE_COMPONENTS == 2

VSS_ROW == 0
VDD_ROW == ROWS - 1
VIN_ROW == 1
VOUT_ROW == ROWS - 2
WORK_START_ROW == 2
WORK_END_ROW == ROWS - 3

Rows == 0 .. (ROWS - 1)

\* tuple(sorted((r1, r2)))
wire_key(r1, r2) == IF r1 <= r2 THEN <<r1, r2>> ELSE <<r2, r1>>

----------------------------------------------------------------------------
\* Union-find over rows

RECURSIVE find(_, _)
\* Root returned by Breadboard.find
find(uf_parent, row) ==
    IF uf_parent[row] # row THEN find(uf_parent, uf_parent[row]) ELSE row

RECURSIVE find_path(_, _)
\* Rows visited by the recursion of Breadboard.find, the root excluded
find_path(uf_parent, row) ==
    IF uf_parent[row] # row
    THEN {row} \cup find_path(uf_parent, uf_parent[row])
    ELSE {}

\* uf_parent after Breadboard.find(row): path compression
find_compress(uf_parent, row) ==
    LET root == find(uf_parent, row)
        path == find_path(uf_parent, row)
    IN [r \in DOMAIN uf_parent |-> IF r \in path THEN root ELSE uf_parent[r]]

\* union without the rail branches: rails are treated like any other root
union_no_rail_preference(self, row1, row2) ==
    LET p1 == find_compress(self.uf_parent, row1)
        root1 == find(p1, row1)
        p2 == find_compress(p1, row2)
        root2 == find(p2, row2)
    IN IF root1 = root2
       THEN [self EXCEPT !.uf_parent = p2]
       ELSE IF root1 \in self.active_nets /\ root2 \in self.active_nets
            THEN [self EXCEPT !.uf_parent = [p2 EXCEPT ![root2] = root1],
                              !.active_nets = @ \ {root2}]
            ELSE IF root1 \in self.active_nets
            THEN [self EXCEPT !.uf_parent = [p2 EXCEPT ![root2] = root1]]
            ELSE IF root2 \in self.active_nets
            THEN [self EXCEPT !.uf_parent = [p2 EXCEPT ![root1] = root2]]
            ELSE [self EXCEPT !.uf_parent = [p2 EXCEPT ![root2] = root1]]

\* union that re-parents the rows passed in instead of their roots
union_links_rows_not_roots(self, row1, row2) ==
    LET p1 == find_compress(self.uf_parent, row1)
        root1 == find(p1, row1)
        p2 == find_compress(p1, row2)
        root2 == find(p2, row2)
    IN IF root1 = root2
       THEN [self EXCEPT !.uf_parent = p2]
       ELSE IF root1 \in {VDD_ROW, VSS_ROW}
            THEN [self EXCEPT !.uf_parent = [p2 EXCEPT ![row2] = root1]]
            ELSE IF root2 \in {VDD_ROW, VSS_ROW}
            THEN [self EXCEPT !.uf_parent = [p2 EXCEPT ![row1] = root2]]
            ELSE IF root1 \in self.active_nets /\ root2 \in self.active_nets
            THEN [self EXCEPT !.uf_parent = [p2 EXCEPT ![row2] = root1],
                              !.active_nets = @ \ {root2}]
            ELSE IF root1 \in self.active_nets
            THEN [self EXCEPT !.uf_parent = [p2 EXCEPT ![row2] = root1]]
            ELSE IF root2 \in self.active_nets
            THEN [self EXCEPT !.uf_parent = [p2 EXCEPT ![row1] = root2]]
            ELSE [self EXCEPT !.uf_parent = [p2 EXCEPT ![row2] = root1]]

\* Breadboard.union: the board after union(row1, row2)
union(self, row1, row2) ==
    LET p1 == find_compress(self.uf_parent, row1)
        root1 == find(p1, row1)
        p2 == find_compress(p1, row2)
        root2 == find(p2, row2)
    IN IF root1 = root2
       THEN [self EXCEPT !.uf_parent = p2]
       ELSE IF root1 \in {VDD_ROW, VSS_ROW}
            THEN [self EXCEPT !.uf_parent = [p2 EXCEPT ![root2] = root1]]
            ELSE IF root2 \in {VDD_ROW, VSS_ROW}
            THEN [self EXCEPT !.uf_parent = [p2 EXCEPT ![root1] = root2]]
            ELSE IF root1 \in self.active_nets /\ root2 \in self.active_nets
            THEN [self EXCEPT !.uf_parent = [p2 EXCEPT ![root2] = root1],
                              !.active_nets = @ \ {root2}]
            ELSE IF root1 \in self.active_nets
            THEN [self EXCEPT !.uf_parent = [p2 EXCEPT ![root2] = root1]]
            ELSE IF root2 \in self.active_nets
            THEN [self EXCEPT !.uf_parent = [p2 EXCEPT ![root1] = root2]]
            ELSE [self EXCEPT !.uf_parent = [p2 EXCEPT ![root2] = root1]]

\* Breadboard.is_row_active
is_row_active(self, row) == find(self.uf_parent, row) \in self.active_nets

\* RowPinIndex.pins_in_row
pins_in_row(self, row) ==
    IF 0 <= row /\ row < ROWS THEN self.row_pin_index[row] ELSE <<>>

\* RowPinIndex.is_empty
is_empty(self, row) ==
    0 <= row /\ row < ROWS /\ Len(self.row_pin_index[row]) = 0

\* Breadboard._is_position_valid
is_position_valid(row) == 0 <= row /\ row < ROWS

\* a duplicate test that finds no wire placed
is_duplicate_wire_never(self, r1, r2) == FALSE

\* Breadboard._is_duplicate_wire
is_duplicate_wire(self, r1, r2) == wire_key(r1, r2) \in self.placed_wires

\* Breadboard._row_has_gate_pin
row_has_gate_pin(self, row) ==
    LET pins == pins_in_row(self, row)
    IN \E k \in DOMAIN pins :
          pins[k].component.type \in {"nmos3", "pmos3"} /\ pins[k].pin_index = 1

\* Breadboard._row_has_base_pin
row_has_base_pin(self, row) ==
    LET pins == pins_in_row(self, row)
    IN \E k \in DOMAIN pins :
          pins[k].component.type \in {"npn", "pnp"} /\ pins[k].pin_index = 1

\* Breadboard._is_power_rail
is_power_rail(row) == row = VDD_ROW \/ row = VSS_ROW

\* control-pin check that only looks at the first endpoint
validate_control_pin_wiring_one_sided(self, r1, r2) ==
    /\ ~(row_has_gate_pin(self, r1) /\ is_power_rail(r2))
    /\ ~(row_has_base_pin(self, r1) /\ is_power_rail(r2))

\* Breadboard._validate_control_pin_wiring
validate_control_pin_wiring(self, r1, r2) ==
    /\ ~(row_has_gate_pin(self, r1) /\ is_power_rail(r2))
    /\ ~(row_has_gate_pin(self, r2) /\ is_power_rail(r1))
    /\ ~(row_has_base_pin(self, r1) /\ is_power_rail(r2))
    /\ ~(row_has_base_pin(self, r2) /\ is_power_rail(r1))

\* forbidden_row_pairs of Breadboard.can_place_wire
forbidden_row_pairs ==
    { {VIN_ROW, VSS_ROW}, {VOUT_ROW, VDD_ROW},
      {VSS_ROW, VOUT_ROW}, {VIN_ROW, VOUT_ROW} }

\* Breadboard.can_place_wire
can_place_wire(self, r1, r2) ==
    /\ r1 # r2
    /\ {r1, r2} \notin forbidden_row_pairs
    /\ is_position_valid(r1) /\ is_position_valid(r2)
    /\ ~is_duplicate_wire(self, r1, r2)
    /\ (is_row_active(self, r1) \/ is_row_active(self, r2))
    /\ validate_control_pin_wiring(self, r1, r2)

\* range(start_row, start_row + info.pin_count)
pin_rows_of(comp_type, start_row) ==
    start_row .. (start_row + pin_count(comp_type) - 1)

\* {self.find(r) for r in rows}
nets_of(self, rows) == {find(self.uf_parent, r) : r \in rows}

\* rows of the pins of a placed component
comp_rows(comp) == {comp.pins[k] : k \in DOMAIN comp.pins}

\* getattr(self, f"{comp_type}_placed", False)
placed_flag(self, comp_type) ==
    CASE comp_type = "vin" -> self.vin_placed
      [] comp_type = "vout" -> self.vout_placed
      [] OTHER -> FALSE

\* can_place_component without the duplicate-topology loop
has_duplicate_topology_never(self, comp_type, pin_nets) == FALSE

\* duplicate test that takes the existing component's pin rows as its nets
\* (no find on existing_comp.pins)
has_duplicate_topology_unresolved_rows(self, comp_type, pin_nets) ==
    \E k \in DOMAIN self.placed_components :
        LET existing_comp == self.placed_components[k]
        IN /\ existing_comp.type = comp_type
           /\ existing_comp.type \notin {"vin", "vout", "wire"}
           /\ comp_rows(existing_comp) = pin_nets

\* the duplicate-topology loop of Breadboard.can_place_component (lines 301-306)
has_duplicate_topology(self, comp_type, pin_nets) ==
    \E k \in DOMAIN self.placed_components :
        LET existing_comp == self.placed_components[k]
        IN /\ existing_comp.type = comp_type
           /\ existing_comp.type \notin {"vin", "vout", "wire"}
           /\ nets_of(self, comp_rows(existing_comp)) = pin_nets

\* can_place_component without the active-net requirement (lines 288-290)
can_place_component_no_active_check(self, comp_type, start_row) ==
    /\ comp_type \in CatalogTypes
    /\ comp_type # "wire"
    /\ ~(~can_place_multiple(comp_type) /\ placed_flag(self, comp_type))
    /\ WORK_START_ROW <= start_row
    /\ start_row + pin_count(comp_type) - 1 <= WORK_END_ROW
    /\ IF pin_count(comp_type) = 1
       THEN ~is_row_active(self, start_row)
       ELSE LET pin_rows == pin_rows_of(comp_type, start_row)
                pin_nets == nets_of(self, pin_rows)
            IN /\ Cardinality(pin_nets) >= 2
               /\ ~has_duplicate_topology(self, comp_type, pin_nets)

\* can_place_component without the degenerate-component test (lines 294-296)
can_place_component_no_degenerate_check(self, comp_type, start_row) ==
    /\ comp_type \in CatalogTypes
    /\ comp_type # "wire"
    /\ ~(~can_place_multiple(comp_type) /\ placed_flag(self, comp_type))
    /\ WORK_START_ROW <= start_row
    /\ start_row + pin_count(comp_type) - 1 <= WORK_END_ROW
    /\ IF pin_count(comp_type) = 1
       THEN ~is_row_active(self, start_row)
       ELSE LET pin_rows == pin_rows_of(comp_type, start_row)
                pin_nets == nets_of(self, pin_rows)
            IN /\ \E r \in pin_rows : is_row_active(self, r)
               /\ ~has_duplicate_topology(self, comp_type, pin_nets)

\* can_place_component with the bounds of the caller's loop (VIN_ROW to
\* VOUT_ROW) in place of the work area
can_place_component_io_rows_allowed(self, comp_type, start_row) ==
    /\ comp_type \in CatalogTypes
    /\ comp_type # "wire"
    /\ ~(~can_place_multiple(comp_type) /\ placed_flag(self, comp_type))
    /\ VIN_ROW <= start_row
    /\ start_row + pin_count(comp_type) - 1 <= VOUT_ROW
    /\ IF pin_count(comp_type) = 1
       THEN ~is_row_active(self, start_row)
       ELSE LET pin_rows == pin_rows_of(comp_type, start_row)
                pin_nets == nets_of(self, pin_rows)
            IN /\ \E r \in pin_rows : is_row_active(self, r)
               /\ Cardinality(pin_nets) >= 2
               /\ ~has_duplicate_topology(self, comp_type, pin_nets)

\* can_place_component without the can_place_multiple test
can_place_component_no_multiplicity_check(self, comp_type, start_row) ==
    /\ comp_type \in CatalogTypes
    /\ comp_type # "wire"
    /\ WORK_START_ROW <= start_row
    /\ start_row + pin_count(comp_type) - 1 <= WORK_END_ROW
    /\ IF pin_count(comp_type) = 1
       THEN ~is_row_active(self, start_row)
       ELSE LET pin_rows == pin_rows_of(comp_type, start_row)
                pin_nets == nets_of(self, pin_rows)
            IN /\ \E r \in pin_rows : is_row_active(self, r)
               /\ Cardinality(pin_nets) >= 2
               /\ ~has_duplicate_topology(self, comp_type, pin_nets)

\* Breadboard.can_place_component
can_place_component(self, comp_type, start_row) ==
    /\ comp_type \in CatalogTypes
    /\ comp_type # "wire"
    /\ ~(~can_place_multiple(comp_type) /\ placed_flag(self, comp_type))
    /\ WORK_START_ROW <= start_row
    /\ start_row + pin_count(comp_type) - 1 <= WORK_END_ROW
    /\ IF pin_count(comp_type) = 1
       THEN ~is_row_active(self, start_row)
       ELSE LET pin_rows == pin_rows_of(comp_type, start_row)
                pin_nets == nets_of(self, pin_rows)
            IN /\ \E r \in pin_rows : is_row_active(self, r)
               /\ Cardinality(pin_nets) >= 2
               /\ ~has_duplicate_topology(self, comp_type, pin_nets)

----------------------------------------------------------------------------
\* Mutators of a board (applied to the clone by apply_action)

RECURSIVE place_pins_no_activation(_, _, _)
\* the pin loop without self.active_nets.add(self.find(r))
place_pins_no_activation(self, component, i) ==
    IF i > Len(component.pins)
    THEN self
    ELSE LET r == component.pins[i]
             pin == [component |-> component, pin_index |-> i - 1]
             placed == [self EXCEPT
                          !.row_pin_index[r] = Append(@, pin),
                          !.uf_parent = find_compress(@, r)]
         IN place_pins_no_activation(placed, component, i + 1)

RECURSIVE place_pins(_, _, _)
\* the pin loop of Breadboard._place_component (lines 646-648), from pin i on
place_pins(self, component, i) ==
    IF i > Len(component.pins)
    THEN self
    ELSE LET r == component.pins[i]
             pin == [component |-> component, pin_index |-> i - 1]
             placed == [self EXCEPT
                          !.row_pin_index[r] = Append(@, pin),
                          !.active_nets = @ \cup {find(self.uf_parent, r)},
                          !.uf_parent = find_compress(@, r)]
         IN place_pins(placed, component, i + 1)

\* _place_component that also unites the rows of consecutive pins
place_component_unites_pins(self, comp_type, start_row) ==
    LET counter == self.component_counter + 1
        component == [type |-> comp_type,
                      pins |-> [k \in 1 .. pin_count(comp_type) |-> start_row + k - 1],
                      id |-> counter]
        appended == [self EXCEPT !.component_counter = counter,
                                 !.placed_components = Append(@, component)]
        pinned == place_pins(appended, component, 1)
        united == IF pin_count(comp_type) = 1 THEN pinned
                  ELSE IF pin_count(comp_type) = 2
                  THEN union(pinned, start_row, start_row + 1)
                  ELSE union(union(pinned, start_row, start_row + 1),
                             start_row + 1, start_row + 2)
    IN IF comp_type = "vin" THEN [united EXCEPT !.vin_placed = TRUE]
       ELSE IF comp_type = "vout" THEN [united EXCEPT !.vout_placed = TRUE]
       ELSE united

\* Breadboard._place_component
place_component(self, comp_type, start_row) ==
    LET counter == self.component_counter + 1
        component == [type |-> comp_type,
                      pins |-> [k \in 1 .. pin_count(comp_type) |-> start_row + k - 1],
                      id |-> counter]
        appended == [self EXCEPT !.component_counter = counter,
                                 !.placed_components = Append(@, component)]
        pinned == place_pins(appended, component, 1)
    IN IF comp_type = "vin" THEN [pinned EXCEPT !.vin_placed = TRUE]
       ELSE IF comp_type = "vout" THEN [pinned EXCEPT !.vout_placed = TRUE]
       ELSE pinned

\* Breadboard._place_wire
place_wire(self, r1, r2) ==
    LET keyed == [self EXCEPT !.placed_wires = @ \cup {wire_key(r1, r2)}]
        united == union(keyed, r1, r2)
        counter == united.component_counter + 1
        component == [type |-> "wire", pins |-> <<r1, r2>>, id |-> counter]
    IN [united EXCEPT !.component_counter = counter,
                      !.placed_components = Append(@, component),
                      !.active_nets = @ \cup {find(united.uf_parent, r1)},
                      !.uf_parent = find_compress(@, r1)]

\* __init__ with only the two rails in active_nets
NewBreadboard_rails_only ==
    LET empty == [row_pin_index |-> [r \in Rows |-> <<>>],
                  placed_components |-> <<>>,
                  component_counter |-> 0,
                  vin_placed |-> FALSE,
                  vout_placed |-> FALSE,
                  uf_parent |-> [r \in Rows |-> r],
                  active_nets |-> {VSS_ROW, VDD_ROW},
                  placed_wires |-> {}]
    IN place_pins_no_activation(
           place_pins_no_activation(
               [empty EXCEPT !.placed_components = << [type |-> "vin", pins |-> <<VIN_ROW>>, id |-> 1],
                                                      [type |-> "vout", pins |-> <<VOUT_ROW>>, id |-> 2] >>,
                             !.component_counter = 2,
                             !.vin_placed = TRUE,
                             !.vout_placed = TRUE],
               [type |-> "vin", pins |-> <<VIN_ROW>>, id |-> 1], 1),
           [type |-> "vout", pins |-> <<VOUT_ROW>>, id |-> 2], 1)

\* Breadboard.__init__ for rows >= MIN_ROWS (self.ROWS = rows)
NewBreadboard ==
    LET empty == [row_pin_index |-> [r \in Rows |-> <<>>],
                  placed_components |-> <<>>,
                  component_counter |-> 0,
                  vin_placed |-> FALSE,
                  vout_placed |-> FALSE,
                  uf_parent |-> [r \in Rows |-> r],
                  active_nets |-> {VSS_ROW, VDD_ROW, VIN_ROW, VOUT_ROW},
                  placed_wires |-> {}]
    IN place_component(place_component(empty, "vin", VIN_ROW), "vout", VOUT_ROW)

----------------------------------------------------------------------------
\* Connectivity validator

\* Net names: "0" is <<"0", 0>>, "VDD" is <<"VDD", 0>>, f"n{k}" is <<"n", k>>
GND_NET == <<"0", 0>>
VDD_NET == <<"VDD", 0>>
RAIL_NETS == {GND_NET, VDD_NET}

RECURSIVE build_net_mapping_from_unnamed_rails(_, _, _, _, _, _)
\* net naming without the "0" and "VDD" cases: every root gets an n<k> name
build_net_mapping_from_unnamed_rails(self, i, j, row_to_net, root_to_net, net_counter) ==
    IF i > Len(self.placed_components)
    THEN row_to_net
    ELSE IF j > Len(self.placed_components[i].pins)
    THEN build_net_mapping_from_unnamed_rails(self, i + 1, 1, row_to_net,
                                              root_to_net, net_counter)
    ELSE LET row == self.placed_components[i].pins[j]
             root == find(self.uf_parent, row)
             known == root \in DOMAIN root_to_net
             name == IF known THEN root_to_net[root] ELSE <<"n", net_counter>>
             roots == IF known THEN root_to_net ELSE (root :> name) @@ root_to_net
             counter == IF known THEN net_counter ELSE net_counter + 1
         IN build_net_mapping_from_unnamed_rails(self, i, j + 1,
                                   (row :> name) @@ row_to_net, roots, counter)

RECURSIVE build_net_mapping_from(_, _, _, _, _, _)
\* the loops of Breadboard._build_net_mapping, from pin j of component i on
build_net_mapping_from(self, i, j, row_to_net, root_to_net, net_counter) ==
    IF i > Len(self.placed_components)
    THEN row_to_net
    ELSE IF j > Len(self.placed_components[i].pins)
    THEN build_net_mapping_from(self, i + 1, 1, row_to_net, root_to_net, net_counter)
    ELSE LET row == self.placed_components[i].pins[j]
             root == find(self.uf_parent, row)
             known == root \in DOMAIN root_to_net
             name == IF known THEN root_to_net[root]
                     ELSE IF root = VSS_ROW THEN GND_NET
                     ELSE IF root = VDD_ROW THEN VDD_NET
                     ELSE <<"n", net_counter>>
             roots == IF known THEN root_to_net ELSE (root :> name) @@ root_to_net
             counter == IF known \/ root = VSS_ROW \/ root = VDD_ROW
                        THEN net_counter ELSE net_counter + 1
         IN build_net_mapping_from(self, i, j + 1,
                                   (row :> name) @@ row_to_net, roots, counter)

\* net naming with the counter of the n<k> names started at 1
build_net_mapping_counting_from_one(self) ==
    build_net_mapping_from(self, 1, 1, <<>>, <<>>, 1)

\* Breadboard._build_net_mapping
build_net_mapping(self) == build_net_mapping_from(self, 1, 1, <<>>, <<>>, 0)

\* indices of the non-wire, non-probe components, in placement order
active_component_indices(self) ==
    {k \in DOMAIN self.placed_components :
        self.placed_components[k].type \notin {"vin", "vout", "wire"}}

\* nets = {row_to_net[row] for row in comp.pins}
comp_nets(row_to_net, comp) == {row_to_net[comp.pins[k]] : k \in DOMAIN comp.pins}

\* a search that stops after the neighbours of the input net
bfs_single_level(adjacency, visited, frontier) ==
    IF frontier = {}
    THEN visited
    ELSE visited \cup UNION {adjacency[n] : n \in frontier}

RECURSIVE bfs(_, _, _)
\* the queue loop of _compute_connectivity_summary (lines 1021-1030)
bfs(adjacency, visited, frontier) ==
    IF frontier = {}
    THEN visited
    ELSE LET reached == {n2 \in UNION {adjacency[n] : n \in frontier} : n2 \notin visited}
         IN bfs(adjacency, visited \cup reached, reached)

\* summary returned before any field is filled in
empty_summary(self) ==
    [vin_present |-> self.vin_placed, vout_present |-> self.vout_placed,
     vin_net |-> <<"None", 0>>, vout_net |-> <<"None", 0>>,
     component_nets |-> {}, visited_nets |-> {},
     touches_vdd |-> FALSE, touches_vss |-> FALSE,
     rails_in_component |-> [VDD |-> FALSE, GND |-> FALSE],
     reachable_vout |-> FALSE, all_components_reachable |-> FALSE,
     has_active_components |-> FALSE, vin_vout_distinct |-> TRUE,
     degenerate_component |-> FALSE, vin_on_power_rail |-> FALSE,
     vout_on_power_rail |-> FALSE, component_count |-> 0, valid |-> FALSE]

\* first index of a component of the given type, 0 if there is none
first_of_type(self, comp_type) ==
    LET idx == {k \in DOMAIN self.placed_components :
                   self.placed_components[k].type = comp_type}
    IN IF idx = {} THEN 0 ELSE CHOOSE k \in idx : \A m \in idx : k <= m

\* a summary whose touches_vdd / touches_vss flags are read off the search from
\* the input net instead of the component loop
compute_connectivity_summary_touches_by_bfs(self) ==
    LET summary == empty_summary(self)
        row_to_net == build_net_mapping(self)
        vin_idx == first_of_type(self, "vin")
        vout_idx == first_of_type(self, "vout")
    IN IF ~(self.vin_placed /\ self.vout_placed) THEN summary
       ELSE IF vin_idx = 0 \/ vout_idx = 0 THEN summary
       ELSE
       LET vin_net == row_to_net[self.placed_components[vin_idx].pins[1]]
           vout_net == row_to_net[self.placed_components[vout_idx].pins[1]]
           nets_set == [summary EXCEPT !.vin_net = vin_net, !.vout_net = vout_net]
           active == active_component_indices(self)
           nets(k) == comp_nets(row_to_net, self.placed_components[k])
           degenerate == {k \in active : Cardinality(nets(k)) < 2}
       IN IF vin_net \in RAIL_NETS THEN [nets_set EXCEPT !.vin_on_power_rail = TRUE]
          ELSE IF vout_net \in RAIL_NETS THEN [nets_set EXCEPT !.vout_on_power_rail = TRUE]
          ELSE IF vin_net = vout_net THEN [nets_set EXCEPT !.vin_vout_distinct = FALSE]
          ELSE IF degenerate # {} THEN [nets_set EXCEPT !.degenerate_component = TRUE]
          ELSE
          LET component_nets == UNION {nets(k) : k \in active}
              touches_vdd == \E k \in active : VDD_NET \in nets(k)
              touches_vss == \E k \in active : GND_NET \in nets(k)
              has_active_components == active # {}
              component_count == Cardinality(active)
              all_nets == component_nets \cup {vin_net}
              adjacency == [n \in all_nets |->
                              {n2 \in component_nets :
                                  n2 # n /\ \E k \in active : {n, n2} \subseteq nets(k)}]
              counted == [nets_set EXCEPT
                            !.has_active_components = has_active_components,
                            !.component_count = component_count]
              visited == bfs(adjacency, {vin_net}, {vin_net})
              reachable_vout == vout_net \in visited
              all_reachable == component_nets \subseteq visited
          IN IF ~has_active_components THEN counted
             ELSE [counted EXCEPT
                     !.touches_vdd = VDD_NET \in visited,
                     !.touches_vss = GND_NET \in visited,
                     !.visited_nets = visited,
                     !.reachable_vout = reachable_vout,
                     !.all_components_reachable = all_reachable,
                     !.rails_in_component = [VDD |-> VDD_NET \in visited,
                                             GND |-> GND_NET \in visited],
                     !.valid = /\ component_count >= MIN_ACTIVE_COMPONENTS
                               /\ reachable_vout
                               /\ all_reachable
                               /\ has_active_components
                               /\ touches_vdd
                               /\ touches_vss,
                     !.component_nets = component_nets]

\* the summary without the test that the probes are on different nets
compute_connectivity_summary_probes_may_share(self) ==
    LET summary == empty_summary(self)
        row_to_net == build_net_mapping(self)
        vin_idx == first_of_type(self, "vin")
        vout_idx == first_of_type(self, "vout")
    IN IF ~(self.vin_placed /\ self.vout_placed) THEN summary
       ELSE IF vin_idx = 0 \/ vout_idx = 0 THEN summary
       ELSE
       LET vin_net == row_to_net[self.placed_components[vin_idx].pins[1]]
           vout_net == row_to_net[self.placed_components[vout_idx].pins[1]]
           nets_set == [summary EXCEPT !.vin_net = vin_net, !.vout_net = vout_net]
           active == active_component_indices(self)
           nets(k) == comp_nets(row_to_net, self.placed_components[k])
           degenerate == {k \in active : Cardinality(nets(k)) < 2}
       IN IF vin_net \in RAIL_NETS THEN [nets_set EXCEPT !.vin_on_power_rail = TRUE]
          ELSE IF vout_net \in RAIL_NETS THEN [nets_set EXCEPT !.vout_on_power_rail = TRUE]
          ELSE IF degenerate # {} THEN [nets_set EXCEPT !.degenerate_component = TRUE]
          ELSE
          LET component_nets == UNION {nets(k) : k \in active}
              touches_vdd == \E k \in active : VDD_NET \in nets(k)
              touches_vss == \E k \in active : GND_NET \in nets(k)
              has_active_components == active # {}
              component_count == Cardinality(active)
              all_nets == component_nets \cup {vin_net}
              adjacency == [n \in all_nets |->
                              {n2 \in component_nets :
                                  n2 # n /\ \E k \in active : {n, n2} \subseteq nets(k)}]
              counted == [nets_set EXCEPT
                            !.has_active_components = has_active_components,
                            !.component_count = component_count]
              visited == bfs(adjacency, {vin_net}, {vin_net})
              reachable_vout == vout_net \in visited
              all_reachable == component_nets \subseteq visited
          IN IF ~has_active_components THEN counted
             ELSE [counted EXCEPT
                     !.touches_vdd = touches_vdd,
                     !.touches_vss = touches_vss,
                     !.visited_nets = visited,
                     !.reachable_vout = reachable_vout,
                     !.all_components_reachable = all_reachable,
                     !.rails_in_component = [VDD |-> VDD_NET \in visited,
                                             GND |-> GND_NET \in visited],
                     !.valid = /\ component_count >= MIN_ACTIVE_COMPONENTS
                               /\ reachable_vout
                               /\ all_reachable
                               /\ has_active_components
                               /\ touches_vdd
                               /\ touches_vss,
                     !.component_nets = component_nets]

\* Breadboard._compute_connectivity_summary
compute_connectivity_summary(self) ==
    LET summary == empty_summary(self)
        row_to_net == build_net_mapping(self)
        vin_idx == first_of_type(self, "vin")
        vout_idx == first_of_type(self, "vout")
    IN IF ~(self.vin_placed /\ self.vout_placed) THEN summary
       ELSE IF vin_idx = 0 \/ vout_idx = 0 THEN summary
       ELSE
       LET vin_net == row_to_net[self.placed_components[vin_idx].pins[1]]
           vout_net == row_to_net[self.placed_components[vout_idx].pins[1]]
           nets_set == [summary EXCEPT !.vin_net = vin_net, !.vout_net = vout_net]
           active == active_component_indices(self)
           nets(k) == comp_nets(row_to_net, self.placed_components[k])
           degenerate == {k \in active : Cardinality(nets(k)) < 2}
       IN IF vin_net \in RAIL_NETS THEN [nets_set EXCEPT !.vin_on_power_rail = TRUE]
          ELSE IF vout_net \in RAIL_NETS THEN [nets_set EXCEPT !.vout_on_power_rail = TRUE]
          ELSE IF vin_net = vout_net THEN [nets_set EXCEPT !.vin_vout_distinct = FALSE]
          ELSE IF degenerate # {} THEN [nets_set EXCEPT !.degenerate_component = TRUE]
          ELSE
          LET component_nets == UNION {nets(k) : k \in active}
              touches_vdd == \E k \in active : VDD_NET \in nets(k)
              touches_vss == \E k \in active : GND_NET \in nets(k)
              has_active_components == active # {}
              component_count == Cardinality(active)
              all_nets == component_nets \cup {vin_net}
              adjacency == [n \in all_nets |->
                              {n2 \in component_nets :
                                  n2 # n /\ \E k \in active : {n, n2} \subseteq nets(k)}]
              counted == [nets_set EXCEPT
                            !.has_active_components = has_active_components,
                            !.component_count = component_count]
              visited == bfs(adjacency, {vin_net}, {vin_net})
              reachable_vout == vout_net \in visited
              all_reachable == component_nets \subseteq visited
          IN IF ~has_active_components THEN counted
             ELSE [counted EXCEPT
                     !.touches_vdd = touches_vdd,
                     !.touches_vss = touches_vss,
                     !.visited_nets = visited,
                     !.reachable_vout = reachable_vout,
                     !.all_components_reachable = all_reachable,
                     !.rails_in_component = [VDD |-> VDD_NET \in visited,
                                             GND |-> GND_NET \in visited],
                     !.valid = /\ component_count >= MIN_ACTIVE_COMPONENTS
                               /\ reachable_vout
                               /\ all_reachable
                               /\ has_active_components
                               /\ touches_vdd
                               /\ touches_vss,
                     !.component_nets = component_nets]

\* Breadboard._all_components_connected
all_components_connected(self) == compute_connectivity_summary(self).valid

\* Breadboard._validate_gate_base_connections
validate_gate_base_connections(self) ==
    \A k \in DOMAIN self.placed_components :
        LET comp == self.placed_components[k]
        IN comp.type \in {"nmos3", "pmos3", "npn", "pnp"}
              => ~(comp.pins[2] = VDD_ROW \/ comp.pins[2] = VSS_ROW)

\* Breadboard.is_complete_and_valid
is_complete_and_valid(self) ==
    /\ self.vin_placed /\ self.vout_placed
    /\ all_components_connected(self)
    /\ validate_gate_base_connections(self)

----------------------------------------------------------------------------
\* SPICE netlist

\* Breadboard._generate_netlist_header
generate_netlist_header ==
    <<"* Auto-generated SPICE netlist from MCTS topology generator", "">>

\* Breadboard._generate_device_models
generate_device_models ==
    <<"* Device models", ".model DMOD D",
      ".model NMOS_MODEL NMOS (LEVEL=1 VTO=0.7 KP=20u)",
      ".model PMOS_MODEL PMOS (LEVEL=1 VTO=-0.7 KP=10u)",
      ".model NPN_MODEL NPN (BF=100)", ".model PNP_MODEL PNP (BF=100)", "">>

\* Breadboard._generate_power_supply
generate_power_supply == <<"* Power supply", "VDD VDD 0 DC 5V", "">>

\* Breadboard._generate_simulation_commands
generate_simulation_commands == <<"* Simulation commands", ".ac dec 100 1 1MEG", ".end">>

\* counter_key and comp_prefix of Breadboard._get_component_id
counter_key(comp_type) ==
    CASE comp_type \in {"nmos3", "pmos3"} -> "mosfet"
      [] comp_type \in {"npn", "pnp"} -> "bjt"
      [] OTHER -> comp_type

comp_prefix(comp_type) ==
    CASE comp_type \in {"nmos3", "pmos3"} -> "M"
      [] comp_type \in {"npn", "pnp"} -> "Q"
      [] comp_type = "resistor" -> "R"
      [] comp_type = "capacitor" -> "C"
      [] comp_type = "inductor" -> "L"
      [] comp_type = "diode" -> "D"
      [] OTHER -> "V"

\* Breadboard._get_component_id for the component at index k: the prefix and
\* the value of its counter, one more than the earlier components of its key
get_component_id(self, k) ==
    LET comp_type == self.placed_components[k].type
        earlier == {m \in active_component_indices(self) :
                       /\ m < k
                       /\ counter_key(self.placed_components[m].type) = counter_key(comp_type)}
    IN <<comp_prefix(comp_type), Cardinality(earlier) + 1>>

\* the text after the pin nets in Breadboard._format_component_spice_line
spice_line_tail(comp_type) ==
    CASE comp_type = "resistor" -> "1k"
      [] comp_type = "capacitor" -> "1u"
      [] comp_type = "inductor" -> "1m"
      [] comp_type = "diode" -> "DMOD"
      [] comp_type = "nmos3" -> "0 NMOS_MODEL L=1u W=10u"
      [] comp_type = "pmos3" -> "VDD PMOS_MODEL L=1u W=10u"
      [] comp_type = "npn" -> "NPN_MODEL"
      [] comp_type = "pnp" -> "PNP_MODEL"

\* Breadboard._generate_component_line: id, pin nets in pin order, tail
generate_component_line(self, row_to_net, k) ==
    LET comp == self.placed_components[k]
    IN [id |-> get_component_id(self, k),
        pin_nets |-> [j \in DOMAIN comp.pins |-> row_to_net[comp.pins[j]]],
        tail |-> spice_line_tail(comp.type)]

\* the device lines with the component placed last first
generate_circuit_components_reversed(self, row_to_net) ==
    LET is_part(k) == k \in active_component_indices(self)
        kept == SelectSeq([k \in DOMAIN self.placed_components |-> k], is_part)
    IN [n \in DOMAIN kept |->
          generate_component_line(self, row_to_net, kept[Len(kept) + 1 - n])]

\* Breadboard._generate_circuit_components: one line per non-wire, non-probe
\* component, in the order of placed_components
generate_circuit_components(self, row_to_net) ==
    LET is_part(k) == k \in active_component_indices(self)
        kept == SelectSeq([k \in DOMAIN self.placed_components |-> k], is_part)
    IN [n \in DOMAIN kept |-> generate_component_line(self, row_to_net, kept[n])]

\* does a row_to_net[row] lookup of the generators raise KeyError?
netlist_lookup_raises(self, row_to_net) ==
    \E k \in DOMAIN self.placed_components :
        /\ self.placed_components[k].type # "wire"
        /\ \E j \in DOMAIN self.placed_components[k].pins :
              self.placed_components[k].pins[j] \notin DOMAIN row_to_net

\* to_netlist without the is_complete_and_valid() test
to_netlist_unchecked(self) ==
    LET row_to_net == build_net_mapping(self)
        vin_idx == first_of_type(self, "vin")
        vout_idx == first_of_type(self, "vout")
    IN IF netlist_lookup_raises(self, row_to_net)
       THEN [kind |-> "raised"]
       ELSE [kind |-> "netlist",
             header |-> generate_netlist_header,
             models |-> generate_device_models,
             power |-> generate_power_supply,
             input |-> IF vin_idx = 0 THEN <<>>
                       ELSE <<row_to_net[self.placed_components[vin_idx].pins[1]]>>,
             components |-> generate_circuit_components(self, row_to_net),
             output |-> IF vout_idx = 0 THEN <<>>
                        ELSE <<row_to_net[self.placed_components[vout_idx].pins[1]]>>,
             commands |-> generate_simulation_commands]

\* Breadboard.to_netlist: None, an exception, or the sections of the string
to_netlist(self) ==
    IF ~is_complete_and_valid(self)
    THEN [kind |-> "None"]
    ELSE LET row_to_net == build_net_mapping(self)
             vin_idx == first_of_type(self, "vin")
             vout_idx == first_of_type(self, "vout")
         IN IF netlist_lookup_raises(self, row_to_net)
            THEN [kind |-> "raised"]
            ELSE [kind |-> "netlist",
                  header |-> generate_netlist_header,
                  models |-> generate_device_models,
                  power |-> generate_power_supply,
                  input |-> IF vin_idx = 0 THEN <<>>
                            ELSE <<row_to_net[self.placed_components[vin_idx].pins[1]]>>,
                  components |-> generate_circuit_components(self, row_to_net),
                  output |-> IF vout_idx = 0 THEN <<>>
                             ELSE <<row_to_net[self.placed_components[vout_idx].pins[1]]>>,
                  commands |-> generate_simulation_commands]

----------------------------------------------------------------------------
\* Evaluation of a board (MCTS.py).  Rewards are whole numbers of the float
\* values of the code; every coefficient of the code is a whole number.

INCOMPLETE_REWARD_CAP == 40

COMPLETION_BASELINE_REWARD == 45

\* values calculate_reward_from_simulation can return: 0 when the simulation
\* timed out, failed or gave no usable data, otherwise MINIMUM_REWARD or more
SpiceRewards == {0, 100, 250}

\* what run_ac_simulation followed by calculate_reward_from_simulation does
\* for one evaluation: raise, or return one of the rewards
OracleOutcomes ==
    {[raises |-> TRUE, spice_reward |-> 0]}
    \cup {[raises |-> FALSE, spice_reward |-> r] : r \in SpiceRewards}

\* uf_parent after _build_net_mapping: find, with path compression, has run
\* on every pin row of every placed component
build_net_mapping_effect(self) ==
    LET pin_rows == UNION {{self.placed_components[k].pins[j] :
                               j \in DOMAIN self.placed_components[k].pins} :
                           k \in DOMAIN self.placed_components}
        on_path == UNION {find_path(self.uf_parent, row) : row \in pin_rows}
    IN [self EXCEPT !.uf_parent = [r \in DOMAIN self.uf_parent |->
                                      IF r \in on_path
                                      THEN find(self.uf_parent, r)
                                      ELSE self.uf_parent[r]]]

\* the value of a local variable that is assigned once
the(values) == CHOOSE v \in values : TRUE

\* MCTS._calculate_circuit_metrics.  c.pins[0][0] subscripts an int, so the
\* generator raises TypeError at the first vin (then vout) component it meets.
calculate_circuit_metrics(state) ==
    LET parts == active_component_indices(state)
        num_components == Cardinality(parts)
        num_wires == Cardinality({k \in DOMAIN state.placed_components :
                                     state.placed_components[k].type = "wire"})
        unique_types == Cardinality({state.placed_components[k].type : k \in parts})
    IN IF first_of_type(state, "vin") # 0 \/ first_of_type(state, "vout") # 0
       THEN [raised |-> TRUE]
       ELSE the({[raised |-> FALSE,
                  num_components |-> num_components,
                  num_wires |-> num_wires,
                  unique_types |-> unique_types,
                  vin_row |-> -1,
                  vout_row |-> -1,
                  vin_vout_connected |-> connectivity.reachable_vout,
                  touches_vdd |-> connectivity.touches_vdd,
                  touches_vss |-> connectivity.touches_vss,
                  supply_connected |-> /\ connectivity.rails_in_component.VDD
                                       /\ connectivity.rails_in_component.GND,
                  has_active_components |-> connectivity.has_active_components,
                  vin_on_power_rail |-> connectivity.vin_on_power_rail,
                  vout_on_power_rail |-> connectivity.vout_on_power_rail,
                  degenerate_component |-> connectivity.degenerate_component,
                  vin_vout_distinct |-> connectivity.vin_vout_distinct,
                  connectivity |-> connectivity] :
                 connectivity \in {compute_connectivity_summary(state)}})

\* MCTS._calculate_connection_bonus
calculate_connection_bonus(metrics) ==
    LET base == IF metrics.vin_vout_connected
                THEN IF metrics.num_components > 0 THEN 20 ELSE 5
                ELSE -2
    IN IF metrics.num_components > 0 /\ metrics.supply_connected
       THEN base + 10
       ELSE base

\* MCTS._calculate_heuristic_reward
calculate_heuristic_reward(metrics) ==
    LET connection_bonus == calculate_connection_bonus(metrics)
        conn == metrics.connectivity
    IN IF metrics.vin_on_power_rail \/ metrics.vout_on_power_rail THEN -25
       ELSE IF ~metrics.vin_vout_distinct THEN -20
       ELSE IF metrics.degenerate_component THEN -15
       ELSE (metrics.num_components * 5) + (metrics.unique_types * 8)
            + connection_bonus
            + (IF conn.touches_vdd THEN 8 ELSE 0)
            + (IF conn.touches_vss THEN 8 ELSE 0)
            + (IF conn.reachable_vout THEN 15 ELSE 0)
            + (IF conn.all_components_reachable THEN 10 ELSE 0)

\* max and min of two numbers
max(a, b) == IF a >= b THEN a ELSE b

min(a, b) == IF a <= b THEN a ELSE b

\* MCTS._baseline_completion_reward
baseline_completion_reward(num_components) ==
    COMPLETION_BASELINE_REWARD + max(0, num_components)

\* MCTS._calculate_final_reward
calculate_final_reward(spice_reward, metrics) ==
    LET complexity_bonus == (metrics.unique_types * 5) + (metrics.num_components * 2)
        reward == spice_reward + complexity_bonus
        baseline_reward == baseline_completion_reward(metrics.num_components)
    IN max(reward, baseline_reward)

\* MCTS._evaluate_with_spice: to_netlist() runs outside the try block, the
\* oracle inside it
evaluate_with_spice(state, metrics, oracle) ==
    LET netlist == to_netlist(state)
    IN IF netlist.kind = "raised"
       THEN [outcome |-> "raised", reward |-> 0]
       ELSE IF netlist.kind = "None"
       THEN [outcome |-> "returned",
             reward |-> baseline_completion_reward(metrics.num_components)]
       ELSE IF oracle.raises
       THEN [outcome |-> "returned",
             reward |-> baseline_completion_reward(metrics.num_components)]
       ELSE IF oracle.spice_reward > 0
       THEN [outcome |-> "returned",
             reward |-> calculate_final_reward(oracle.spice_reward, metrics)]
       ELSE [outcome |-> "returned",
             reward |-> baseline_completion_reward(metrics.num_components)]

\* MCTS._evaluate_circuit after metrics = self._calculate_circuit_metrics(state)
evaluate_metrics(state, metrics, oracle) ==
    IF metrics.raised
    THEN [outcome |-> "raised", reward |-> 0]
    ELSE LET heuristic_reward == calculate_heuristic_reward(metrics)
         IN IF is_complete_and_valid(state) /\ metrics.num_components >= 1
            THEN evaluate_with_spice(state, metrics, oracle)
            ELSE [outcome |-> "returned",
                  reward |-> max(0, min(heuristic_reward, INCOMPLETE_REWARD_CAP))]

\* MCTS._evaluate_circuit: the reward it returns, or the exception that
\* leaves it
evaluate_circuit(state, oracle) ==
    the({evaluate_metrics(state, metrics, oracle) :
            metrics \in {calculate_circuit_metrics(state)}})

----------------------------------------------------------------------------
\* legal_actions

\* (comp_type, r) pairs in the iteration order of _add_component_actions
component_candidates ==
    [k \in 1 .. (Len(COMPONENT_CATALOG) * ROWS) |->
        <<COMPONENT_CATALOG[((k - 1) \div ROWS) + 1], (k - 1) % ROWS>>]

\* Breadboard._add_component_actions: the actions it appends
component_actions(self) ==
    LET can_offer(a) ==
            /\ a[1] # "wire"
            /\ VIN_ROW <= a[2]
            /\ a[2] <= VOUT_ROW - (pin_count(a[1]) - 1)
            /\ can_place_component(self, a[1], a[2])
    IN SelectSeq(component_candidates, can_offer)

RECURSIVE wire_row_scan_no_seen(_, _, _, _)
\* the inner wire loop without the seen_wires test
wire_row_scan_no_seen(self, r1, r2, acc) ==
    IF r2 >= ROWS
    THEN acc
    ELSE IF can_place_wire(self, r1, r2)
    THEN wire_row_scan_no_seen(self, r1, r2 + 1,
             [seen_wires |-> acc.seen_wires \cup {wire_key(r1, r2)},
              actions |-> Append(acc.actions, <<"wire", r1, r2>>)])
    ELSE wire_row_scan_no_seen(self, r1, r2 + 1, acc)

RECURSIVE wire_row_scan(_, _, _, _)
\* the inner loop of Breadboard._add_wire_actions (lines 588-594) for an
\* active row r1, from r2 on; acc is (seen_wires, actions)
wire_row_scan(self, r1, r2, acc) ==
    IF r2 >= ROWS
    THEN acc
    ELSE IF wire_key(r1, r2) \in acc.seen_wires
    THEN wire_row_scan(self, r1, r2 + 1, acc)
    ELSE IF can_place_wire(self, r1, r2)
    THEN wire_row_scan(self, r1, r2 + 1,
             [seen_wires |-> acc.seen_wires \cup {wire_key(r1, r2)},
              actions |-> Append(acc.actions, <<"wire", r1, r2>>)])
    ELSE wire_row_scan(self, r1, r2 + 1, acc)

RECURSIVE wire_scan(_, _, _)
\* the outer loop of Breadboard._add_wire_actions (line 587) over the active
\* rows, from r1 on
wire_scan(self, r1, acc) ==
    IF r1 >= ROWS
    THEN acc
    ELSE IF ~is_row_active(self, r1)
    THEN wire_scan(self, r1 + 1, acc)
    ELSE wire_scan(self, r1 + 1, wire_row_scan(self, r1, 0, acc))

\* Breadboard._add_wire_actions: the actions it appends
wire_actions(self) ==
    wire_scan(self, 0, [seen_wires |-> {}, actions |-> <<>>]).actions

\* _add_stop_action_if_valid that only counts the components
stop_actions_any_component(self) ==
    LET num_components == Cardinality(active_component_indices(self))
    IN IF num_components >= 1
       THEN << <<"STOP">> >>
       ELSE <<>>

\* Breadboard._add_stop_action_if_valid: the actions it appends
stop_actions(self) ==
    LET num_components == Cardinality(active_component_indices(self))
    IN IF is_complete_and_valid(self) /\ num_components >= 1
       THEN << <<"STOP">> >>
       ELSE <<>>

\* Breadboard.legal_actions: the list it returns
legal_actions(self) ==
    component_actions(self) \o wire_actions(self) \o stop_actions(self)

\* uf_parent after legal_actions(): is_row_active(r) has run find(r), with
\* path compression, on every row
legal_actions_effect(self) ==
    [self EXCEPT !.uf_parent = [r \in Rows |-> find(self.uf_parent, r)]]

\* the actions of a list, as a set
actions_of(list) == {list[k] : k \in DOMAIN list}

----------------------------------------------------------------------------
\* Board objects on the heap

\* the board a reference record denotes
deref(h, b) ==
    [row_pin_index |-> h[b.row_pin_index],
     placed_components |-> h[b.placed_components],
     component_counter |-> b.component_counter,
     vin_placed |-> b.vin_placed,
     vout_placed |-> b.vout_placed,
     uf_parent |-> h[b.uf_parent],
     active_nets |-> h[b.active_nets],
     placed_wires |-> h[b.placed_wires]]

\* in-place mutation of the containers of b, and its rebound scalars
store(h, b, self) ==
    [heap |-> [a \in DOMAIN h |->
                  IF a = b.row_pin_index THEN self.row_pin_index
                  ELSE IF a = b.placed_components THEN self.placed_components
                  ELSE IF a = b.uf_parent THEN self.uf_parent
                  ELSE IF a = b.active_nets THEN self.active_nets
                  ELSE IF a = b.placed_wires THEN self.placed_wires
                  ELSE h[a]],
     board |-> [b EXCEPT !.component_counter = self.component_counter,
                         !.vin_placed = self.vin_placed,
                         !.vout_placed = self.vout_placed]]

\* a clone that shares the receiver's uf_parent list instead of copying it
clone_shared_uf_parent(h, b) ==
    LET n == Len(h)
    IN [heap |-> h \o <<h[b.row_pin_index], h[b.placed_components],
                        h[b.active_nets], h[b.placed_wires]>>,
        board |-> [b EXCEPT !.row_pin_index = n + 1,
                            !.placed_components = n + 2,
                            !.active_nets = n + 3,
                            !.placed_wires = n + 4]]

\* Breadboard.clone: new containers holding copies of the receiver's
clone(h, b) ==
    LET n == Len(h)
    IN [heap |-> h \o <<h[b.row_pin_index], h[b.placed_components],
                        h[b.uf_parent], h[b.active_nets], h[b.placed_wires]>>,
        board |-> [b EXCEPT !.row_pin_index = n + 1,
                            !.placed_components = n + 2,
                            !.uf_parent = n + 3,
                            !.active_nets = n + 4,
                            !.placed_wires = n + 5]]

\* does the placement the action asks for raise (KeyError, IndexError)?
placement_raises(action) ==
    IF action[1] = "wire"
    THEN ~is_position_valid(action[2]) \/ ~is_position_valid(action[3])
    ELSE \/ action[1] \notin CatalogTypes
         \/ \E r \in pin_rows_of(action[1], action[2]) : ~is_position_valid(r)

\* apply_action without the early return for Stop: the 1-tuple reaches the
\* unpacking "comp_type, start_row = action", which raises ValueError
apply_action_without_stop(h, b, action) ==
    LET cloned == clone(h, b)
        new_board == deref(cloned.heap, cloned.board)
    IN IF action[1] = "STOP"
       THEN [heap |-> h, board |-> b, raised |-> TRUE]
       ELSE IF placement_raises(action)
       THEN [heap |-> h, board |-> b, raised |-> TRUE]
       ELSE LET placed == IF action[1] = "wire"
                          THEN place_wire(new_board, action[2], action[3])
                          ELSE place_component(new_board, action[1], action[2])
                stored == store(cloned.heap, cloned.board, placed)
            IN [heap |-> stored.heap, board |-> stored.board, raised |-> FALSE]

\* Breadboard.apply_action: the heap after the call, the board returned, and
\* whether the call raised instead
apply_action(h, b, action) ==
    LET cloned == clone(h, b)
        new_board == deref(cloned.heap, cloned.board)
    IN IF action[1] = "STOP"
       THEN [heap |-> cloned.heap, board |-> cloned.board, raised |-> FALSE]
       ELSE IF placement_raises(action)
       THEN [heap |-> h, board |-> b, raised |-> TRUE]
       ELSE LET placed == IF action[1] = "wire"
                          THEN place_wire(new_board, action[2], action[3])
                          ELSE place_component(new_board, action[1], action[2])
                stored == store(cloned.heap, cloned.board, placed)
            IN [heap |-> stored.heap, board |-> stored.board, raised |-> FALSE]

----------------------------------------------------------------------------
\* State machine: a chain of boards, each built from the one before it by
\* apply_action.  boards[Len(boards)] is the current board, offered is the
\* list legal_actions() returns for it, and budget is the number of
\* apply_action calls still explored.

current == boards[Len(boards)]

cur == deref(heap, current)

board_at(i) == deref(heap, boards[i])

\* heap and chain right after Breadboard(rows), rows = ROWS
fresh_chain ==
    LET fresh == NewBreadboard
    IN [heap |-> <<fresh.row_pin_index, fresh.placed_components,
                   fresh.uf_parent, fresh.active_nets, fresh.placed_wires>>,
        boards |-> << [row_pin_index |-> 1, placed_components |-> 2,
                       uf_parent |-> 3, active_nets |-> 4, placed_wires |-> 5,
                       component_counter |-> fresh.component_counter,
                       vin_placed |-> fresh.vin_placed,
                       vout_placed |-> fresh.vout_placed] >>,
        all_legal |-> TRUE]

\* MCTS.__init__ has not run: there is no search tree
NoMCTS == [root |-> 0, best_candidate_state |-> 0, best_candidate_reward |-> 0]

NoCall == [op |-> "none", node |-> 0, outcome |-> "none", value |-> 0]

NoSearch ==
    /\ nodes = <<>>
    /\ mcts = NoMCTS
    /\ call = NoCall

Init ==
    /\ ROWS = BoardRows
    /\ NoSearch
    /\ heap = fresh_chain.heap
    /\ boards = fresh_chain.boards
    /\ offered = legal_actions(NewBreadboard)
    /\ result = "none"
    /\ legal = TRUE
    /\ last = <<"none">>
    /\ budget = MaxActions
    /\ evaluations = <<>>

\* b2 = current.apply_action(action); b2 becomes the current board; spent is
\* what the call takes from the budget of explored calls
ApplyAction(action, was_legal, spent) ==
    \E out \in {apply_action(heap, current, action)} :
       /\ legal' = was_legal
       /\ last' = action
       /\ budget' = budget - spent
       /\ UNCHANGED <<ROWS, evaluations, tree_vars>>
       /\ IF out.raised
          THEN /\ result' = "raised"
               /\ UNCHANGED <<heap, boards, offered>>
          ELSE /\ result' = "returned"
               /\ heap' = out.heap
               /\ boards' = Append(boards, out.board)
               /\ \E new_board \in {deref(out.heap, out.board)} :
                     offered' = legal_actions(new_board)

Apply(action, was_legal) == ApplyAction(action, was_legal, 1)

\* a caller that only applies members of legal_actions() (MCTSNode.expand)
ApplyLegalAction ==
    /\ budget > 0
    /\ \E action \in actions_of(offered) : Apply(action, TRUE)

\* current.legal_actions(): returns the list and compresses the paths of the
\* current board (a call that finds every path compressed changes nothing)
CallLegalActions ==
    \E self \in {cur} :
       /\ legal_actions_effect(self) # self
       /\ heap' = store(heap, current, legal_actions_effect(self)).heap
       /\ offered' = legal_actions(self)
       /\ UNCHANGED <<ROWS, boards, result, legal, last, budget, evaluations, tree_vars>>

Next == ApplyLegalAction \/ CallLegalActions

Spec == Init /\ [][Next]_vars

----------------------------------------------------------------------------
\* Boards built by fixed sequences of legal actions, and by the legal
\* actions explored from every board of such a sequence

\* tests/test_degenerate_prevention.py, lines 129-148: a resistor from the
\* input net to the supply net, then two more rows on the same two nets
ScriptDuplicate ==
    << <<"wire", VIN_ROW, WORK_START_ROW>>,
       <<"wire", VDD_ROW, WORK_START_ROW + 1>>,
       <<"resistor", WORK_START_ROW>>,
       <<"wire", VIN_ROW, WORK_START_ROW + 2>>,
       <<"wire", VDD_ROW, WORK_START_ROW + 3>> >>

\* a transistor stage in the manner of tests/test_validation_rules.py
\* (test_transistor_circuit_with_valid_connections), with rows that make every
\* step a legal action: drain on the input net, gate on the output net, source
\* on the supply net, and a resistor from supply to ground
ScriptStage ==
    << <<"wire", VIN_ROW, WORK_START_ROW>>,
       <<"wire", VOUT_ROW, WORK_START_ROW + 1>>,
       <<"wire", VDD_ROW, WORK_START_ROW + 2>>,
       <<"wire", VSS_ROW, WORK_START_ROW + 3>>,
       <<"nmos3", WORK_START_ROW>>,
       <<"resistor", WORK_START_ROW + 2>> >>

\* two resistors from the input net over the ground net to the output net,
\* then the legal wire from the ground row to the supply row
ScriptShortedRails ==
    << <<"wire", VIN_ROW, WORK_START_ROW>>,
       <<"wire", VSS_ROW, WORK_START_ROW + 1>>,
       <<"wire", VOUT_ROW, WORK_START_ROW + 2>>,
       <<"resistor", WORK_START_ROW>>,
       <<"resistor", WORK_START_ROW + 1>>,
       <<"wire", VSS_ROW, VDD_ROW>> >>

Scripts == {ScriptDuplicate, ScriptStage, ScriptShortedRails}

\* the action that placed a component: (type, start_row) or ("wire", r1, r2)
action_of(comp) ==
    IF comp.type = "wire"
    THEN <<"wire", comp.pins[1], comp.pins[2]>>
    ELSE <<comp.type, comp.pins[1]>>

\* the actions applied so far, read from placed_components after the two
\* probes of __init__
actions_applied(self) ==
    [k \in 1 .. (Len(self.placed_components) - 2) |->
        action_of(self.placed_components[k + 2])]

InitScripted ==
    /\ ROWS = BoardRows
    /\ NoSearch
    /\ heap = fresh_chain.heap
    /\ boards = fresh_chain.boards
    /\ offered = legal_actions(NewBreadboard)
    /\ result = "none"
    /\ legal = TRUE
    /\ last = <<"none">>
    /\ budget = MaxExtraActions
    /\ evaluations = <<>>

\* b = b.apply_action(a) for the next action a of a script, while the board
\* is the one built by the actions of the script before a and a is legal
ScriptStepOf(scripts) ==
    /\ budget = MaxExtraActions
    /\ evaluations = <<>>
    /\ nodes = <<>>
    /\ \E script \in scripts : \E done \in {actions_applied(cur)} :
          /\ Len(done) < Len(script)
          /\ done = SubSeq(script, 1, Len(done))
          /\ Len(boards) = Len(done) + 1
          /\ script[Len(done) + 1] \in actions_of(offered)
          /\ ApplyAction(script[Len(done) + 1], TRUE, 0)

ScriptStep == ScriptStepOf(Scripts)

NextScripted == ScriptStep \/ ApplyLegalAction \/ CallLegalActions

SpecScripted == InitScripted /\ [][NextScripted]_vars

----------------------------------------------------------------------------
\* The evaluation step of an iteration (MCTS._execute_iteration, step 3) on
\* the boards of the scripts: reward = _evaluate_circuit(node.state, stats),
\* with whatever the oracle does this time.  evaluations keeps, per call, the
\* board evaluated, the oracle's behaviour, and what the call did.

EvaluateCircuit ==
    /\ Len(evaluations) < MaxEvaluations
    /\ \E oracle \in OracleOutcomes : \E state \in {cur} :
          \E out \in {evaluate_circuit(state, oracle)} :
             /\ evaluations' = Append(evaluations,
                   [board |-> Len(boards),
                    oracle |-> oracle,
                    complete |-> /\ is_complete_and_valid(state)
                                 /\ Cardinality(active_component_indices(state)) >= 1,
                    num_components |-> Cardinality(active_component_indices(state)),
                    outcome |-> out.outcome,
                    reward |-> out.reward])
             /\ heap' = store(heap, current, build_net_mapping_effect(state)).heap
             /\ UNCHANGED <<ROWS, boards, offered, result, legal, last, budget, tree_vars>>

NextEval == ScriptStep \/ ApplyLegalAction \/ CallLegalActions \/ EvaluateCircuit

SpecEval == InitScripted /\ [][NextEval]_vars

----------------------------------------------------------------------------
\* Breadboard(rows) for every row count up to BoardRows, and then the legal
\* actions of the board, if there is one

\* __init__ without its MIN_ROWS test
init_raises_no_minimum(rows) == (rows - 3) < 2

\* the two raise statements of Breadboard.__init__
init_raises(rows) ==
    \/ rows < MIN_ROWS
    \/ (rows - 3) < 2

ConstructorRows == 0 .. BoardRows

InitSizes ==
    /\ ROWS \in ConstructorRows
    /\ NoSearch
    /\ legal = TRUE
    /\ last = <<"none">>
    /\ budget = MaxActions
    /\ evaluations = <<>>
    /\ IF init_raises(ROWS)
       THEN /\ result = "raised"
            /\ heap = <<>>
            /\ boards = <<>>
            /\ offered = <<>>
       ELSE /\ result = "none"
            /\ heap = fresh_chain.heap
            /\ boards = fresh_chain.boards
            /\ offered = legal_actions(NewBreadboard)

NextSizes ==
    \/ (boards # <<>> /\ ApplyLegalAction)
    \/ (boards # <<>> /\ CallLegalActions)

SpecSizes == InitSizes /\ [][NextSizes]_vars

----------------------------------------------------------------------------
\* A caller that passes any action tuple: every catalog kind and one unknown
\* kind at every start row, every row pair, and STOP; row ROWS is off the
\* board.
InputRows == 0 .. ROWS

AnyActions ==
    {<<t, r>> : t \in (CatalogTypes \ {"wire"}) \cup {"unknown"}, r \in InputRows}
    \cup {<<"wire", r1, r2>> : r1 \in InputRows, r2 \in InputRows}
    \cup {<<"STOP">>}

InitAny ==
    /\ ROWS = BoardRows
    /\ NoSearch
    /\ heap = fresh_chain.heap
    /\ boards = fresh_chain.boards
    /\ offered = legal_actions(NewBreadboard)
    /\ result = "none"
    /\ legal = TRUE
    /\ last = <<"none">>
    /\ budget = MaxAnyActions
    /\ evaluations = <<>>

ApplyAnyAction ==
    /\ budget > 0
    /\ \E action \in AnyActions : Apply(action, action \in actions_of(offered))

NextAny == ApplyAnyAction

SpecAny == InitAny /\ [][NextAny]_vars

----------------------------------------------------------------------------
\* Properties

offered_set == actions_of(offered)

\* action shapes: (comp_type, start_row), ("wire", r1, r2), ("STOP",)
IsPlacement(a) == Len(a) = 2
IsWire(a) == Len(a) = 3

WorkRows == WORK_START_ROW .. WORK_END_ROW
RailRows == {VSS_ROW, VDD_ROW}
MultiPinKinds == {"resistor", "capacitor", "inductor", "diode",
                  "nmos3", "pmos3", "npn", "pnp"}
TransistorKinds == {"nmos3", "pmos3", "npn", "pnp"}

\* the placed non-wire, non-probe components
PlacedParts(self) ==
    {self.placed_components[k] : k \in active_component_indices(self)}

\* C1: apply_action signals an error for every action that is not a member
\* of the receiver's legal_actions() at the time of the call.
C1_IllegalActionRaises ==
    (result # "none" /\ ~legal) => result = "raised"

\* what the claim lists of a board: components, pins per row, wires, net
\* partition, active rows, probe flags
snapshot(i) ==
    LET b == board_at(i)
    IN [placed_components |-> b.placed_components,
        row_pin_index |-> b.row_pin_index,
        placed_wires |-> b.placed_wires,
        net_of_row |-> [r \in Rows |-> find(b.uf_parent, r)],
        active_rows |-> {r \in Rows : is_row_active(b, r)},
        vin_placed |-> b.vin_placed,
        vout_placed |-> b.vout_placed]

\* C2: no step (an apply_action on the current board, or on any board built
\* from it later) changes the components, pins, wires, net partition, active
\* rows or probe flags of a board that already exists.
C2_ReceiverNeverMutated ==
    [][\A i \in DOMAIN boards : snapshot(i)' = snapshot(i)]_vars

\* a chain b -> b2 -> b3 whose last step placed a wire
C2_Witness ==
    /\ Len(boards) = 3
    /\ IsWire(last)
    /\ snapshot(1) # snapshot(2)
    /\ snapshot(2).net_of_row # snapshot(3).net_of_row

\* C3: legal_actions() offers no component placement whose pin rows are all
\* inactive and no wire whose two endpoint rows are both inactive.
C3_MonotonicGrowth ==
    \A self \in {cur} : \A a \in offered_set :
       /\ IsPlacement(a) =>
             \E r \in pin_rows_of(a[1], a[2]) : is_row_active(self, r)
       /\ IsWire(a) => is_row_active(self, a[2]) \/ is_row_active(self, a[3])

\* a placement with an inactive pin and a wire with an inactive endpoint are
\* offered while two neighbouring work rows are both inactive
C3_Witness ==
    \E self \in {cur} :
       /\ \E a \in offered_set :
             IsPlacement(a) /\ \E r \in pin_rows_of(a[1], a[2]) : ~is_row_active(self, r)
       /\ \E a \in offered_set : IsWire(a) /\ ~is_row_active(self, a[3])
       /\ \E r \in WorkRows :
             r + 1 \in WorkRows /\ ~is_row_active(self, r) /\ ~is_row_active(self, r + 1)

\* C4: a multi-pin placement whose pin rows all resolve to one net is never
\* offered; one in the work area whose pins span at least two nets (with an
\* active pin and no same-kind component on the same nets) is offered.
C4_DegenerateRejection ==
    \A self \in {cur} : \A t \in MultiPinKinds : \A r \in Rows :
       LET rows == pin_rows_of(t, r)
       IN rows \subseteq Rows =>
             /\ Cardinality(nets_of(self, rows)) = 1 => <<t, r>> \notin offered_set
             /\ ( /\ rows \subseteq WorkRows
                  /\ Cardinality(nets_of(self, rows)) >= 2
                  /\ \E x \in rows : is_row_active(self, x)
                  /\ ~\E c \in PlacedParts(self) :
                         c.type = t /\ nets_of(self, comp_rows(c)) = nets_of(self, rows) )
                => <<t, r>> \in offered_set

\* two active work rows on one net (a two-pin part there is degenerate) and
\* an offered three-pin part with two pins on one net and the third on another
C4_Witness ==
    \E self \in {cur} :
       /\ \E r \in WorkRows :
             /\ r + 1 \in WorkRows
             /\ is_row_active(self, r)
             /\ find(self.uf_parent, r) = find(self.uf_parent, r + 1)
       /\ \E a \in offered_set :
             /\ IsPlacement(a)
             /\ pin_count(a[1]) = 3
             /\ Cardinality(nets_of(self, pin_rows_of(a[1], a[2]))) = 2

\* C5 as stated: legal_actions() never offers a placement any of whose pin
\* rows already holds a pin of a placed component.
C5_OnlyEmptyRowsOffered ==
    \A self \in {cur} : \A a \in offered_set :
       IsPlacement(a) => \A r \in pin_rows_of(a[1], a[2]) : is_empty(self, r)

\* C5 as amended: legal_actions() never offers a placement of a kind at a
\* start row where a component of that kind already sits, and no row holds
\* two pins of the same kind and pin position.
C5_NoSameKindOnSameRows ==
    \A self \in {cur} :
       /\ \A a \in offered_set :
             IsPlacement(a) =>
                ~\E c \in PlacedParts(self) : c.type = a[1] /\ c.pins[1] = a[2]
       /\ \A r \in Rows : \A i, j \in DOMAIN self.row_pin_index[r] :
             LET p == self.row_pin_index[r][i]
                 q == self.row_pin_index[r][j]
             IN (i # j) => ~(p.component.type = q.component.type
                             /\ p.pin_index = q.pin_index)

\* a placement of another kind is offered on the rows of a placed part
C5_Witness ==
    \E self \in {cur} : \E c \in PlacedParts(self) : \E a \in offered_set :
       /\ IsPlacement(a)
       /\ a[2] = c.pins[1]
       /\ pin_count(a[1]) = pin_count(c.type)
       /\ <<c.type, c.pins[1]>> \notin offered_set

\* C6: every offered placement has all its pin rows in the work area, and no
\* placed non-probe component has a pin on the ground, input, output or
\* supply row.
C6_WorkAreaOnly ==
    \A self \in {cur} :
       /\ \A a \in offered_set :
             IsPlacement(a) => pin_rows_of(a[1], a[2]) \subseteq (2 .. (ROWS - 3))
       /\ \A c \in PlacedParts(self) :
             comp_rows(c) \cap {0, 1, ROWS - 2, ROWS - 1} = {}

\* a part sits on the last work row and placements are offered on the first
C6_Witness ==
    \E self \in {cur} :
       /\ \E c \in PlacedParts(self) : WORK_END_ROW \in comp_rows(c)
       /\ \E a \in offered_set : IsPlacement(a) /\ a[2] = WORK_START_ROW

\* C7: wire legality does not depend on the endpoint order; no offered wire
\* joins a row to itself, is one of the four direct pairs, or repeats a placed
\* wire; and no unordered pair is listed twice.
C7_WireLegality ==
    \A self \in {cur} :
       /\ \A r1, r2 \in Rows : can_place_wire(self, r1, r2) = can_place_wire(self, r2, r1)
       /\ \A k \in DOMAIN offered :
             IsWire(offered[k]) =>
                LET r1 == offered[k][2]
                    r2 == offered[k][3]
                IN /\ r1 # r2
                   /\ {r1, r2} \notin {{1, 0}, {ROWS - 2, ROWS - 1},
                                       {0, ROWS - 2}, {1, ROWS - 2}}
                   /\ <<r1, r2>> \notin self.placed_wires
                   /\ <<r2, r1>> \notin self.placed_wires
                   /\ \A m \in DOMAIN offered :
                         (m # k /\ IsWire(offered[m])) =>
                            {offered[m][2], offered[m][3]} # {r1, r2}

\* a wire is placed, and an offered wire has both endpoints active, so that
\* the scan meets the pair in both orders
C7_Witness ==
    \E self \in {cur} :
       /\ self.placed_wires # {}
       /\ \E a \in offered_set :
             IsWire(a) /\ is_row_active(self, a[2]) /\ is_row_active(self, a[3])

\* C8: no offered wire joins a rail row to a row that holds the gate or base
\* pin (pin index 1) of a placed transistor, in either endpoint order.
C8_NoControlPinToRail ==
    \A self \in {cur} : \A a \in offered_set :
       IsWire(a) =>
          \A c \in PlacedParts(self) :
             c.type \in TransistorKinds =>
                /\ ~(a[2] \in RailRows /\ a[3] = c.pins[2])
                /\ ~(a[3] \in RailRows /\ a[2] = c.pins[2])

\* a transistor is placed, a wire from its gate or base row to a row that is
\* no rail is offered, and so is a wire from a rail to another of its pins
C8_Witness ==
    \E self \in {cur} : \E c \in PlacedParts(self) :
       /\ c.type \in TransistorKinds
       /\ \E a \in offered_set : IsWire(a) /\ c.pins[2] \in {a[2], a[3]}
       /\ \E a \in offered_set :
             IsWire(a) /\ a[2] \in RailRows /\ a[3] \in {c.pins[1], c.pins[3]}

\* C9: a placement of a kind whose set of pin nets equals that of a placed
\* component of the same kind is never offered; one that shares its nets only
\* with a component of another kind, spans two nets or more and has an active
\* pin is offered.
C9_DuplicateTopologyRejected ==
    \A self \in {cur} : \A t \in MultiPinKinds : \A r \in WorkRows :
       LET rows == pin_rows_of(t, r)
           same_nets(c) == nets_of(self, comp_rows(c)) = nets_of(self, rows)
       IN rows \subseteq WorkRows =>
             /\ (\E c \in PlacedParts(self) : c.type = t /\ same_nets(c))
                   => <<t, r>> \notin offered_set
             /\ ( /\ \E c \in PlacedParts(self) : c.type # t /\ same_nets(c)
                  /\ ~\E c \in PlacedParts(self) : c.type = t /\ same_nets(c)
                  /\ Cardinality(nets_of(self, rows)) >= 2
                  /\ \E x \in rows : is_row_active(self, x) )
                => <<t, r>> \in offered_set

\* a placed part, and other rows on the same nets where a part of another
\* kind is offered
C9_Witness ==
    \E self \in {cur} : \E c \in PlacedParts(self) : \E a \in offered_set :
       /\ IsPlacement(a)
       /\ a[1] # c.type
       /\ a[2] # c.pins[1]
       /\ nets_of(self, pin_rows_of(a[1], a[2])) = nets_of(self, comp_rows(c))
       /\ <<c.type, a[2]>> \notin offered_set

\* C10 as stated: each rail row is the root of its own net.
C10_RailsAreTheirOwnRoots ==
    \A self \in {cur} :
       /\ find(self.uf_parent, VSS_ROW) = VSS_ROW
       /\ find(self.uf_parent, VDD_ROW) = VDD_ROW

\* C10 as amended: the root of every net that holds a rail row is a rail
\* row, and each rail is its own root as long as the two rails are in
\* different nets.
C10_RailNetsHaveRailRoots ==
    \A self \in {cur} :
       LET root(r) == find(self.uf_parent, r)
       IN /\ \A r \in Rows :
                (root(r) = root(VSS_ROW) \/ root(r) = root(VDD_ROW))
                   => root(r) \in RailRows
          /\ root(VSS_ROW) # root(VDD_ROW)
                => (root(VSS_ROW) = VSS_ROW /\ root(VDD_ROW) = VDD_ROW)

\* the last wire named a rail as its second endpoint and a row with other
\* rows on its net as its first
C10_Witness ==
    \E self \in {cur} :
       /\ result = "returned"
       /\ IsWire(last)
       /\ last[3] \in RailRows
       /\ last[2] \notin RailRows
       /\ \E r \in Rows \ RailRows :
             r # last[2] /\ find(self.uf_parent, r) = find(self.uf_parent, last[2])

RECURSIVE wire_reach(_, _)
\* the rows joined to a row of `seen` by a path of placed wires
wire_reach(self, seen) ==
    LET grown == seen \cup {r \in Rows :
                              \E x \in seen : wire_key(r, x) \in self.placed_wires}
    IN IF grown = seen THEN seen ELSE wire_reach(self, grown)

\* rows a and b are in one net of the board
same_net(self, a, b) == find(self.uf_parent, a) = find(self.uf_parent, b)

SpecialRows == {VSS_ROW, VDD_ROW, VIN_ROW, VOUT_ROW}

\* rows that hold a pin of a placed non-wire component
PinRows(self) == {r \in Rows : Len(self.row_pin_index[r]) > 0}

\* C12 as stated: a row is active iff its net holds the ground row, the
\* supply row, the input-probe row or the output-probe row.
C12_ActiveIffRailOrProbeNet ==
    \A self \in {cur} : \A r \in Rows :
       is_row_active(self, r) <=> \E x \in SpecialRows : same_net(self, r, x)

\* C12 as amended: a row is active iff its net holds a rail row, a probe row
\* or a pin row of a placed component.
C12_ActiveIffRailProbeOrPinNet ==
    \A self \in {cur} : \A r \in Rows :
       is_row_active(self, r) <=>
          \E x \in SpecialRows \cup PinRows(self) : same_net(self, r, x)

\* a row is active through a component pin only, with no wire path to a rail
\* or a probe, while another row is still inactive
C12_Witness ==
    \E self \in {cur} :
       /\ \E r \in Rows :
             /\ is_row_active(self, r)
             /\ wire_reach(self, {r}) \cap SpecialRows = {}
       /\ \E r \in Rows : ~is_row_active(self, r)

\* the placed components of a kind
PlacedOfKind(self, kind) ==
    {k \in DOMAIN self.placed_components : self.placed_components[k].type = kind}

\* C13: every board has exactly one input probe, with its single pin on row
\* 1, and exactly one output probe, with its single pin on row ROWS - 2, and
\* legal_actions() offers no placement of an input or output probe.
C13_ProbesPlacedExactlyOnce ==
    \A self \in {cur} :
       /\ Cardinality(PlacedOfKind(self, "vin")) = 1
       /\ \A k \in PlacedOfKind(self, "vin") : self.placed_components[k].pins = <<1>>
       /\ Cardinality(PlacedOfKind(self, "vout")) = 1
       /\ \A k \in PlacedOfKind(self, "vout") :
             self.placed_components[k].pins = <<ROWS - 2>>
       /\ \A r \in Rows : \A i \in DOMAIN self.row_pin_index[r] :
             LET p == self.row_pin_index[r][i]
             IN /\ p.component.type = "vin" => r = 1
                /\ p.component.type = "vout" => r = ROWS - 2
       /\ self.vin_placed /\ self.vout_placed
       /\ \A a \in offered_set : a[1] \notin {"vin", "vout"}

\* two actions were applied and a work row is still inactive: the only test
\* that keeps a probe from being offered there is the multiplicity test
C13_Witness ==
    \E self \in {cur} :
       /\ Len(boards) = 3
       /\ \E r \in WorkRows : ~is_row_active(self, r)

\* C14: on every board, find(r) with its path compression returns the same
\* root when repeated and moves no row to another net; after union(a, b) rows
\* a and b share a root; and union leaves every row in the net of the rows it
\* shared a net with.
C14_UnionFindLaws ==
    \A self \in {cur} :
       /\ \A r \in Rows :
             \E compressed \in {find_compress(self.uf_parent, r)} :
                /\ find(compressed, r) = find(self.uf_parent, r)
                /\ \A x \in Rows : find(compressed, x) = find(self.uf_parent, x)
       /\ \A a, b \in Rows :
             \E united \in {union(self, a, b)} :
                /\ same_net(united, a, b)
                /\ \A x \in Rows : same_net(united, x, find(self.uf_parent, x))

\* a wire was placed and some row reaches its root in two steps, so that
\* find has a path to compress and union meets rows that are not roots
C14_Witness ==
    \E self \in {cur} :
       /\ result = "returned"
       /\ IsWire(last)
       /\ \E r \in Rows : self.uf_parent[self.uf_parent[r]] # self.uf_parent[r]

\* C15: STOP is in legal_actions() iff the board is complete and valid and
\* has a non-wire, non-probe component; it is listed once, as the last
\* action, after every placement and every wire (placements come before
\* wires).
C15_StopOnlyWhenValidAndLast ==
    \A self \in {cur} :
       /\ (<<"STOP">> \in offered_set) <=>
             (is_complete_and_valid(self) /\ PlacedParts(self) # {})
       /\ \A k \in DOMAIN offered :
             /\ offered[k] = <<"STOP">> => k = Len(offered)
             /\ \A m \in DOMAIN offered :
                   (IsPlacement(offered[m]) /\ IsWire(offered[k])) => m < k

\* STOP is offered together with placements and wires
C15_Witness ==
    /\ <<"STOP">> \in offered_set
    /\ \E a \in offered_set : IsPlacement(a)
    /\ \E a \in offered_set : IsWire(a)
    /\ Len(offered) >= 3

RECURSIVE part_reach(_, _)
\* the nets (find roots) joined to a net of `seen` by a chain of placed
\* non-wire, non-probe components
part_reach(self, seen) ==
    LET grown == seen \cup UNION {nets_of(self, comp_rows(c)) :
                                    c \in {x \in PlacedParts(self) :
                                             nets_of(self, comp_rows(x)) \cap seen # {}}}
    IN IF grown = seen THEN seen ELSE part_reach(self, grown)

\* the conditions C16 lists, read off the rows and their nets
ListedValidity(self) ==
    LET input_net == find(self.uf_parent, 1)
        output_net == find(self.uf_parent, ROWS - 2)
        ground_net == find(self.uf_parent, 0)
        supply_net == find(self.uf_parent, ROWS - 1)
        reached == part_reach(self, {input_net})
    IN /\ PlacedOfKind(self, "vin") # {} /\ PlacedOfKind(self, "vout") # {}
       /\ input_net \notin {ground_net, supply_net}
       /\ output_net \notin {ground_net, supply_net}
       /\ input_net # output_net
       /\ \A c \in PlacedParts(self) : Cardinality(nets_of(self, comp_rows(c))) >= 2
       /\ Cardinality(active_component_indices(self)) >= 2
       /\ output_net \in reached
       /\ \A c \in PlacedParts(self) : nets_of(self, comp_rows(c)) \subseteq reached
       /\ \E c \in PlacedParts(self) : supply_net \in nets_of(self, comp_rows(c))
       /\ \E c \in PlacedParts(self) : ground_net \in nets_of(self, comp_rows(c))
       /\ \A c \in PlacedParts(self) :
             c.type \in TransistorKinds => c.pins[2] \notin {0, ROWS - 1}

\* C16 as stated: is_complete_and_valid() is true iff the listed conditions
\* hold.
C16_ValidIffListedConditions ==
    \A self \in {cur} : is_complete_and_valid(self) <=> ListedValidity(self)

\* C16 as amended: is_complete_and_valid() is true iff the listed conditions
\* hold and the ground row and the supply row are in different nets.
C16_ValidIffListedAndRailsApart ==
    \A self \in {cur} :
       is_complete_and_valid(self) <=>
          (ListedValidity(self) /\ ~same_net(self, 0, ROWS - 1))

\* a complete and valid board whose ground net is two components away from
\* the input net
C16_Witness ==
    \E self \in {cur} :
       /\ is_complete_and_valid(self)
       /\ ListedValidity(self)
       /\ \E c \in PlacedParts(self) :
             find(self.uf_parent, 1) \notin nets_of(self, comp_rows(c))

\* the board reaches the search of the validator: both probes placed, no
\* probe on a net with a rail, the probes on different nets, a non-wire,
\* non-probe component placed and none of them with all pins on one net
SearchIsRun(self) ==
    /\ PlacedOfKind(self, "vin") # {} /\ PlacedOfKind(self, "vout") # {}
    /\ \A probe \in {1, ROWS - 2} : \A rail \in {0, ROWS - 1} :
          ~same_net(self, probe, rail)
    /\ ~same_net(self, 1, ROWS - 2)
    /\ PlacedParts(self) # {}
    /\ \A c \in PlacedParts(self) : Cardinality(nets_of(self, comp_rows(c))) >= 2

\* every net touched by a non-wire, non-probe component is reachable from
\* the input net in the component adjacency graph
AllPartNetsReached(self) ==
    \A c \in PlacedParts(self) :
       nets_of(self, comp_rows(c)) \subseteq part_reach(self, {find(self.uf_parent, 1)})

\* C17 as stated: on every board the all_components_reachable flag is true
\* iff every net touched by a non-wire, non-probe component is reachable from
\* the input net.
C17_FlagIffAllPartNetsReached ==
    \A self \in {cur} :
       compute_connectivity_summary(self).all_components_reachable
          <=> AllPartNetsReached(self)

\* C17 as amended: the flag is true iff the validator runs its search (see
\* SearchIsRun) and every net touched by a component is reachable from the
\* input net; on every other board the flag is false.
C17_FlagIffSearchRunAndAllReached ==
    \A self \in {cur} :
       compute_connectivity_summary(self).all_components_reachable
          <=> (SearchIsRun(self) /\ AllPartNetsReached(self))

\* the flag is true on a board whose search reached both rail nets
C17_Witness ==
    \E summary \in {compute_connectivity_summary(cur)} :
       /\ summary.all_components_reachable
       /\ RAIL_NETS \subseteq summary.visited_nets
       /\ Cardinality(summary.component_nets) >= 4

\* is the probe row of the given kind in the net of the given rail row?
ProbeOnRail(self, probe, rail) ==
    \E k \in PlacedOfKind(self, probe) :
        same_net(self, self.placed_components[k].pins[1], rail)

\* C20: to_netlist() returns None exactly when the board is not complete and
\* valid, and otherwise a netlist with its input source, at least one device
\* line and its output probe; it never raises.  In particular a board whose
\* input probe is wired into the ground net or the supply net, or whose output
\* probe is, yields None.
C20_NetlistIffCompleteAndValid ==
    LET netlist == to_netlist(cur)
    IN /\ netlist.kind # "raised"
       /\ (netlist.kind = "None") <=> ~is_complete_and_valid(cur)
       /\ netlist.kind = "netlist" =>
             /\ Len(netlist.input) = 1
             /\ Len(netlist.output) = 1
             /\ Len(netlist.components) >= 1
       /\ (\E probe \in {"vin", "vout"}, rail \in RailRows : ProbeOnRail(cur, probe, rail))
             => netlist.kind = "None"

\* a valid two-part board is turned into a netlist, after a board whose input
\* probe was wired to ground through an intermediate row yielded None
C20_Witness ==
    /\ to_netlist(cur).kind = "netlist"
    /\ Len(to_netlist(cur).components) >= 2
    /\ \E i \in 1..Len(boards) :
          /\ to_netlist(board_at(i)).kind = "None"
          /\ Cardinality(PlacedParts(board_at(i))) >= 1

\* C18: every evaluation returns a reward; the reward of a board that is not
\* complete and valid lies in 0..40, the reward of a complete and valid board
\* with a component is at least 45 plus its component count, and so a complete
\* board always scores strictly more than an incomplete one, whatever the
\* oracle does.
C18_RewardOrdering ==
    \A i \in DOMAIN evaluations :
        LET a == evaluations[i]
        IN /\ a.outcome = "returned"
           /\ ~a.complete => a.reward \in 0 .. INCOMPLETE_REWARD_CAP
           /\ a.complete => a.reward >= COMPLETION_BASELINE_REWARD + a.num_components
           /\ \A j \in DOMAIN evaluations :
                 (a.complete /\ ~evaluations[j].complete)
                    => a.reward > evaluations[j].reward

\* C19: when a complete and valid board is evaluated and the oracle raises or
\* gives no positive reward, the evaluation returns exactly the completion
\* floor, 45 plus the component count, and no exception leaves it.
C19_OracleFailureAbsorbed ==
    \A i \in DOMAIN evaluations :
        LET e == evaluations[i]
        IN (e.complete /\ (e.oracle.raises \/ e.oracle.spice_reward <= 0))
              => /\ e.outcome = "returned"
                 /\ e.reward = COMPLETION_BASELINE_REWARD + e.num_components

\* the board Breadboard(rows) has just returned, if it returned one
IsFreshBoard == Len(boards) = 1 /\ result = "none"

\* wire actions of a list of actions
WireActionsOf(list) == {a \in actions_of(list) : a[1] = "wire"}

\* C22 as written: a fresh board of the minimum row count has exactly two
\* placed components, the input probe and the output probe, no wires, and no
\* wire action among its legal actions.
C22_FreshMinimumBoardOffersNoWire ==
    (ROWS = MIN_ROWS /\ IsFreshBoard) =>
       \E self \in {cur} :
          /\ Len(self.placed_components) = 2
          /\ self.placed_components[1].type = "vin"
          /\ self.placed_components[2].type = "vout"
          /\ self.placed_wires = {}
          /\ WireActionsOf(legal_actions(self)) = {}

\* C22, amended: a fresh board of the minimum row count has exactly two placed
\* components, the input probe and the output probe, and no wires; its legal
\* actions hold no placement and no Stop, and hold exactly one wire action for
\* every pair of distinct rows of which one is a rail or probe row, except the
\* four forbidden pairs (input-ground, output-supply, ground-output,
\* input-output).
C22_FreshMinimumBoardOffersOnlyWires ==
    (ROWS = MIN_ROWS /\ IsFreshBoard) =>
       \E self \in {cur} : \E list \in {legal_actions(self)} :
          /\ Len(self.placed_components) = 2
          /\ self.placed_components[1].type = "vin"
          /\ self.placed_components[1].pins = <<1>>
          /\ self.placed_components[2].type = "vout"
          /\ self.placed_components[2].pins = <<MIN_ROWS - 2>>
          /\ self.placed_wires = {}
          /\ actions_of(list) = WireActionsOf(list)
          /\ {{a[2], a[3]} : a \in WireActionsOf(list)}
                = {{r1, r2} : r1 \in {0, 1, MIN_ROWS - 2, MIN_ROWS - 1},
                              r2 \in 0 .. (MIN_ROWS - 1)}
                  \ {{0}, {1}, {MIN_ROWS - 2}, {MIN_ROWS - 1},
                     {1, 0}, {MIN_ROWS - 2, MIN_ROWS - 1},
                     {0, MIN_ROWS - 2}, {1, MIN_ROWS - 2}}
          /\ \A i, j \in DOMAIN list :
                {list[i][2], list[i][3]} = {list[j][2], list[j][3]} => i = j

\* a fresh six-row board whose legal actions are ten wires
C22_Witness ==
    /\ ROWS = MIN_ROWS
    /\ IsFreshBoard
    /\ Len(legal_actions(cur)) = 10
    /\ <<"wire", 1, 2>> \in actions_of(legal_actions(cur))

\* C24: Breadboard(rows) raises and yields no board when rows < 6; for every
\* rows >= 6 it returns a board with ground row 0, input row 1, a non-empty
\* work area 2..rows-3, output row rows-2 and supply row rows-1, all
\* distinct, with one union-find entry per row and the probes on their rows.
C24_ConstructionFailsBelowMinimum ==
    /\ ROWS < 6 => (result = "raised" /\ boards = <<>> /\ heap = <<>>)
    /\ ROWS >= 6 =>
          /\ boards # <<>>
          /\ VSS_ROW = 0 /\ VIN_ROW = 1
          /\ WORK_START_ROW = 2 /\ WORK_END_ROW = ROWS - 3
          /\ WORK_START_ROW <= WORK_END_ROW
          /\ VOUT_ROW = ROWS - 2 /\ VDD_ROW = ROWS - 1
          /\ Cardinality({VSS_ROW, VIN_ROW, VOUT_ROW, VDD_ROW}) = 4
          /\ {VSS_ROW, VIN_ROW, VOUT_ROW, VDD_ROW} \cap (WORK_START_ROW .. WORK_END_ROW) = {}
          /\ \E fresh \in {board_at(1)} :
                /\ DOMAIN fresh.uf_parent = 0 .. (ROWS - 1)
                /\ DOMAIN fresh.row_pin_index = 0 .. (ROWS - 1)
                /\ fresh.placed_components[1].pins = <<1>>
                /\ fresh.placed_components[2].pins = <<ROWS - 2>>

\* Breadboard(5) has raised
C24_Witness == ROWS = 5 /\ result = "raised" /\ boards = <<>>

\* C26: applying Stop to a board on which it is legal returns (no exception) a
\* new board structurally equal to the receiver: same placed components and
\* pin order, same wire keys, same net partition, same active rows, same probe
\* flags, and the same legal_actions().
C26_StopReturnsEqualBoard ==
    (last = <<"STOP">> /\ legal) =>
        /\ result = "returned"
        /\ Len(boards) >= 2
        /\ snapshot(Len(boards)) = snapshot(Len(boards) - 1)
        /\ legal_actions(cur) = legal_actions(board_at(Len(boards) - 1))

\* Stop was legal on a board carrying wires and components, and was applied
C26_Witness ==
    /\ last = <<"STOP">> /\ legal /\ result = "returned"
    /\ cur.placed_wires # {}
    /\ Len(cur.placed_components) > 2
    /\ <<"STOP">> \in actions_of(legal_actions(board_at(Len(boards) - 1)))

\* the wire keys of the board that join a rail row to a row holding a MOSFET
\* gate pin or a BJT base pin
RailToControlPinWires(self) ==
    {w \in self.placed_wires :
        \/ is_power_rail(w[1]) /\ (row_has_gate_pin(self, w[2]) \/ row_has_base_pin(self, w[2]))
        \/ is_power_rail(w[2]) /\ (row_has_gate_pin(self, w[1]) \/ row_has_base_pin(self, w[1]))}

\* C28: on every board reached from a fresh board by legal actions only, no
\* placed wire joins a rail row (ground or supply) to a row that holds a MOSFET
\* gate pin or a BJT base pin, whichever of the two was placed first.
C28_NoWireJoinsRailToControlPin ==
    legal => \A i \in DOMAIN boards : RailToControlPinWires(board_at(i)) = {}

\* nets (by name) on which some non-wire, non-probe component of the board has a pin
NetsTouchedByComponents(self) ==
    UNION {{build_net_mapping(self)[self.placed_components[k].pins[p]] :
               p \in DOMAIN self.placed_components[k].pins} :
           k \in {m \in DOMAIN self.placed_components :
                     self.placed_components[m].type \notin {"vin", "vout", "wire"}}}

\* the summary ran past its early returns (probe on a rail, probes on one net,
\* degenerate component, no component at all)
SummaryCompleted(summary) ==
    /\ summary.has_active_components
    /\ ~summary.degenerate_component

----------------------------------------------------------------------------
\* The three-resistor divider of tests/test_search_space_correct.py
\* (test_simple_valid_circuit), in the (type, row) / ("wire", r1, r2) action
\* format of Breadboard.apply_action.

\* default of the rows parameter of Breadboard.__init__
DEFAULT_ROWS == 15

\* row shared by the three resistors
MIDPOINT_ROW == WORK_START_ROW + 1

\* input - R1 - midpoint, midpoint - R2 - ground, midpoint - R3 - supply,
\* output wired to the midpoint
ScriptDivider ==
    << <<"wire", VIN_ROW, WORK_START_ROW>>,
       <<"resistor", WORK_START_ROW>>,
       <<"resistor", MIDPOINT_ROW>>,
       <<"wire", VSS_ROW, WORK_START_ROW + 2>>,
       <<"wire", MIDPOINT_ROW, WORK_START_ROW + 3>>,
       <<"resistor", WORK_START_ROW + 3>>,
       <<"wire", WORK_START_ROW + 4, VDD_ROW>>,
       <<"wire", MIDPOINT_ROW, VOUT_ROW>> >>

\* board sizes with the five work rows the divider uses
DividerSizes == {BoardRows + 1, DEFAULT_ROWS}

InitDivider ==
    /\ ROWS \in DividerSizes
    /\ NoSearch
    /\ heap = fresh_chain.heap
    /\ boards = fresh_chain.boards
    /\ offered = legal_actions(NewBreadboard)
    /\ result = "none"
    /\ legal = TRUE
    /\ last = <<"none">>
    /\ budget = MaxExtraActions
    /\ evaluations = <<>>

DividerStep == ScriptStepOf({ScriptDivider})

\* one offered action off the sequence, from any board of it
DividerDetour ==
    /\ budget = MaxExtraActions
    /\ ApplyLegalAction

NextDivider == DividerStep \/ DividerDetour \/ CallLegalActions

SpecDivider == InitDivider /\ [][NextDivider]_vars

\* the chain is the divider script applied from the fresh board, in full
DividerBuilt ==
    /\ Len(boards) = Len(ScriptDivider) + 1
    /\ actions_applied(cur) = ScriptDivider

\* C23: on a fresh board with enough work rows every action of the divider
\* sequence is a member of legal_actions() of the board it is applied to,
\* and the board it builds satisfies is_complete_and_valid(), is offered Stop,
\* and has a netlist whose output-probe directive names the net of the
\* midpoint row, the net shared by the three resistors.
C23_DividerReachableByLegalActions ==
    (\E n \in 1 .. Len(ScriptDivider) :
        /\ Len(boards) = n + 1
        /\ actions_applied(cur) = SubSeq(ScriptDivider, 1, n)) =>
    /\ legal
    /\ result = "returned"
    /\ DividerBuilt =>
          /\ is_complete_and_valid(cur)
          /\ <<"STOP">> \in actions_of(legal_actions(cur))
          /\ to_netlist(cur).kind = "netlist"
          /\ to_netlist(cur).output = <<build_net_mapping(cur)[MIDPOINT_ROW]>>
          /\ build_net_mapping(cur)[MIDPOINT_ROW] \notin RAIL_NETS
          /\ \A k \in active_component_indices(cur) :
                build_net_mapping(cur)[MIDPOINT_ROW]
                   \in comp_nets(build_net_mapping(cur), cur.placed_components[k])

\* the divider has been built by offered actions on a board of the default size
C23_Witness ==
    /\ DividerBuilt
    /\ legal
    /\ ROWS = DEFAULT_ROWS
    /\ Cardinality(active_component_indices(cur)) = 3
    /\ last = <<"wire", MIDPOINT_ROW, VOUT_ROW>>

----------------------------------------------------------------------------
\* The search tree (MCTS.py).  A node is a record of the fields of MCTSNode;
\* nodes[n].state is the index in boards of the node's Breadboard, parent is
\* a node index (0 for None) and children is a list of node indices.

\* action_from_parent of a root
NoAction == <<"None">>

\* MCTSNode.__init__ on the board object b, kept at boards[state]: the new
\* node, and the heap after state.legal_actions() has compressed the paths
\* of the state
MCTSNode(h, b, state, parent, action_from_parent) ==
    the({[heap |-> store(h, b, legal_actions_effect(self)).heap,
          node |-> [state |-> state,
                    parent |-> parent,
                    action_from_parent |-> action_from_parent,
                    children |-> <<>>,
                    wins |-> 0,
                    visits |-> 0,
                    untried_actions |-> legal_actions(self)]] :
         self \in {deref(h, b)}})

\* the objects a method of the tree reads and writes
tree == [heap |-> heap, boards |-> boards, nodes |-> nodes]

\* an expand that hands back the node itself when nothing is left to try
expand_returns_self(t, n) ==
    [heap |-> t.heap, boards |-> t.boards, nodes |-> t.nodes,
     raised |-> FALSE, value |-> n]

\* the end of expand, after the pop: out is what apply_action did; the child
\* node is built on the new board and appended to the children of n
append_child(t, n, action, out) ==
    LET popped == [t.nodes EXCEPT ![n].untried_actions = SubSeq(@, 1, Len(@) - 1)]
        child == Len(t.nodes) + 1
    IN IF out.raised
       THEN [heap |-> t.heap, boards |-> t.boards, nodes |-> popped,
             raised |-> TRUE, value |-> 0]
       ELSE the({[heap |-> made.heap,
                  boards |-> Append(t.boards, out.board),
                  nodes |-> Append([popped EXCEPT ![n].children = Append(@, child)],
                                   made.node),
                  raised |-> FALSE, value |-> child] :
                 made \in {MCTSNode(out.heap, out.board, Len(t.boards) + 1, n, action)}})

\* an expand that records the first untried action on the child while it
\* applies the last one
expand_records_first_action(t, n) ==
    IF t.nodes[n].untried_actions = <<>>
    THEN [heap |-> t.heap, boards |-> t.boards, nodes |-> t.nodes,
          raised |-> TRUE, value |-> 0]
    ELSE the({append_child(t, n, t.nodes[n].untried_actions[1],
                           apply_action(t.heap, t.boards[t.nodes[n].state], action)) :
              action \in {t.nodes[n].untried_actions[Len(t.nodes[n].untried_actions)]}})

\* an expand that applies the last untried action and leaves it in the list
expand_without_pop(t, n) ==
    IF t.nodes[n].untried_actions = <<>>
    THEN [heap |-> t.heap, boards |-> t.boards, nodes |-> t.nodes,
          raised |-> TRUE, value |-> 0]
    ELSE the({[made EXCEPT !.nodes[n].untried_actions = t.nodes[n].untried_actions] :
              made \in {append_child(t, n,
                                     t.nodes[n].untried_actions[Len(t.nodes[n].untried_actions)],
                                     apply_action(t.heap, t.boards[t.nodes[n].state],
                                                  t.nodes[n].untried_actions[Len(t.nodes[n].untried_actions)]))}})

\* MCTSNode.expand: ValueError with nothing changed when no action is left;
\* otherwise the last untried action is popped and applied, and the child is
\* appended (an exception of apply_action leaves after the pop)
expand(t, n) ==
    IF t.nodes[n].untried_actions = <<>>
    THEN [heap |-> t.heap, boards |-> t.boards, nodes |-> t.nodes,
          raised |-> TRUE, value |-> 0]
    ELSE the({append_child(t, n, action,
                           apply_action(t.heap, t.boards[t.nodes[n].state], action)) :
              action \in {t.nodes[n].untried_actions[Len(t.nodes[n].untried_actions)]}})

\* MCTSNode.update
update(ns, n, reward) ==
    [ns EXCEPT ![n].visits = @ + 1, ![n].wins = @ + reward]

\* a backpropagation that stops after the node it was given
backpropagate_node_only(ns, n, reward) ==
    IF n = 0 THEN ns ELSE update(ns, n, reward)

RECURSIVE backpropagate(_, _, _)
\* MCTS._backpropagate: update on the node and on every ancestor
backpropagate(ns, n, reward) ==
    IF n = 0
    THEN ns
    ELSE backpropagate(update(ns, n, reward), ns[n].parent, reward)

\* math.log(n) in millionths, n = 1 .. 12 (rounded to the nearest)
LOG_MICRO ==
    <<0, 693147, 1098612, 1386294, 1609438, 1791759,
      1945910, 2079442, 2197225, 2302585, 2397895, 2484907>>

RECURSIVE isqrt_between(_, _, _)
\* the largest r in lo .. hi with r * r <= x
isqrt_between(x, lo, hi) ==
    IF lo = hi
    THEN lo
    ELSE LET mid == (lo + hi + 1) \div 2
         IN IF mid * mid <= x
            THEN isqrt_between(x, mid, hi)
            ELSE isqrt_between(x, lo, mid - 1)

\* math.sqrt on whole numbers, rounded down
isqrt(x) == isqrt_between(x, 0, 2000)

\* a key that ranks an unvisited child below every visited one
calculate_uct_value_unvisited_last(ns, n, child) ==
    IF ns[child].visits = 0
    THEN [raised |-> FALSE, inf |-> FALSE, value |-> -1]
    ELSE IF ns[n].visits = 0
    THEN [raised |-> TRUE, inf |-> FALSE, value |-> 0]
    ELSE [raised |-> FALSE, inf |-> FALSE,
          value |-> ((ns[child].wins * 1000) \div ns[child].visits)
                    + isqrt(LOG_MICRO[ns[n].visits] \div ns[child].visits)]

\* MCTSNode._calculate_uct_value with exploration_constant = 1.0, in
\* thousandths: inf for an unvisited child, ValueError of math.log when the
\* parent has no visit
calculate_uct_value(ns, n, child) ==
    IF ns[child].visits = 0
    THEN [raised |-> FALSE, inf |-> TRUE, value |-> 0]
    ELSE IF ns[n].visits = 0
    THEN [raised |-> TRUE, inf |-> FALSE, value |-> 0]
    ELSE [raised |-> FALSE, inf |-> FALSE,
          value |-> ((ns[child].wins * 1000) \div ns[child].visits)
                    + isqrt(LOG_MICRO[ns[n].visits] \div ns[child].visits)]

\* a < b on the values of _calculate_uct_value
uct_less(a, b) ==
    IF a.inf THEN FALSE
    ELSE IF b.inf THEN TRUE
    ELSE a.value < b.value

\* MCTSNode.select_child: ValueError without children; otherwise max() over
\* the children, the first of the maximal ones
select_child(ns, n) ==
    LET children == ns[n].children
        key(k) == calculate_uct_value(ns, n, children[k])
    IN IF children = <<>>
       THEN [raised |-> TRUE, value |-> 0]
       ELSE IF \E k \in DOMAIN children : key(k).raised
       THEN [raised |-> TRUE, value |-> 0]
       ELSE LET best == CHOOSE k \in DOMAIN children :
                            /\ \A m \in DOMAIN children : ~uct_less(key(k), key(m))
                            /\ \A m \in 1 .. (k - 1) : uct_less(key(m), key(k))
            IN [raised |-> FALSE, value |-> children[best]]

RECURSIVE select_leaf_node_from(_, _, _)
\* the loop of MCTS._select_leaf_node from a node on; path lists the nodes
\* the loop has left behind
select_leaf_node_from(ns, node, path) ==
    IF ns[node].untried_actions = <<>> /\ ns[node].children # <<>>
    THEN LET chosen == select_child(ns, node)
         IN IF chosen.raised
            THEN [raised |-> TRUE, value |-> 0, path |-> Append(path, node)]
            ELSE select_leaf_node_from(ns, chosen.value, Append(path, node))
    ELSE [raised |-> FALSE, value |-> node, path |-> path]

\* MCTS._select_leaf_node
select_leaf_node(ns, root) == select_leaf_node_from(ns, root, <<>>)

\* the eleven wires a 6-row board can hold, each offered by legal_actions()
\* when it is applied; the board they leave has no legal action
ScriptSaturate ==
    << <<"wire", 5, 3>>, <<"wire", 5, 2>>, <<"wire", 3, 4>>, <<"wire", 2, 4>>,
       <<"wire", 2, 3>>, <<"wire", 1, 5>>, <<"wire", 1, 3>>, <<"wire", 1, 2>>,
       <<"wire", 0, 5>>, <<"wire", 0, 3>>, <<"wire", 0, 2>> >>

\* rewards handed to update (test_mcts_fixes.py: child.update(1.0),
\* root.update(10.0))
RewardValues == {1, 10}

\* board sizes of the searches: the smallest board and the usual one
TreeSizes == {MIN_ROWS, BoardRows}

\* legal actions left on the boards a search of the smallest board starts from
MaxRootActions == 2

\* the boards handed to MCTS(initial_state): the 6-row board with at most
\* MaxRootActions wires left to place, and the completed transistor stage
TreeScripts ==
    IF ROWS = MIN_ROWS
    THEN {SubSeq(ScriptSaturate, 1, Len(ScriptSaturate) - k) : k \in 0 .. MaxRootActions}
    ELSE {ScriptStage}

InitTree ==
    /\ ROWS \in TreeSizes
    /\ NoSearch
    /\ heap = fresh_chain.heap
    /\ boards = fresh_chain.boards
    /\ offered = legal_actions(NewBreadboard)
    /\ result = "none"
    /\ legal = TRUE
    /\ last = <<"none">>
    /\ budget = MaxExtraActions
    /\ evaluations = <<>>

\* the board the search will start from is built first
BuildStep == ScriptStepOf(TreeScripts)

\* mcts = MCTS(current), once a script of the set is built
NewMCTSOn(scripts) ==
    /\ nodes = <<>>
    /\ Len(boards) = Len(cur.placed_components) - 1
    /\ actions_applied(cur) \in scripts
    /\ \E made \in {MCTSNode(heap, current, Len(boards), 0, NoAction)} :
          /\ heap' = made.heap
          /\ nodes' = <<made.node>>
    /\ mcts' = [root |-> 1, best_candidate_state |-> 0, best_candidate_reward |-> 0]
    /\ call' = [op |-> "MCTS", node |-> 1, outcome |-> "returned", value |-> 1]
    /\ UNCHANGED <<ROWS, boards, offered, result, legal, last, budget, evaluations>>

NewMCTS == NewMCTSOn(TreeScripts)

outcome_of(out) == IF out.raised THEN "raised" ELSE "returned"

\* visits recorded in the whole tree
RECURSIVE total_visits(_, _)
total_visits(ns, n) ==
    IF n = 0 THEN 0 ELSE ns[n].visits + total_visits(ns, n - 1)

RECURSIVE depth(_, _)
\* number of ancestors of a node
depth(ns, n) == IF ns[n].parent = 0 THEN 0 ELSE 1 + depth(ns, ns[n].parent)

\* nodes[n].expand()
Expand(n) ==
    /\ Len(nodes) < MaxNodes \/ nodes[n].untried_actions = <<>>
    /\ \E out \in {expand(tree, n)} :
          /\ heap' = out.heap
          /\ boards' = out.boards
          /\ nodes' = out.nodes
          /\ call' = [op |-> "expand", node |-> n,
                      outcome |-> outcome_of(out), value |-> out.value]
    /\ UNCHANGED <<ROWS, offered, result, legal, last, budget, evaluations, mcts>>

\* nodes[n].select_child()
SelectChild(n) ==
    /\ \E out \in {select_child(nodes, n)} :
          call' = [op |-> "select_child", node |-> n,
                   outcome |-> outcome_of(out), value |-> out.value]
    /\ UNCHANGED <<ROWS, heap, boards, offered, result, legal, last, budget,
                   evaluations, nodes, mcts>>

\* mcts._select_leaf_node()
SelectLeafNode ==
    /\ nodes # <<>>
    /\ \E out \in {select_leaf_node(nodes, mcts.root)} :
          call' = [op |-> "_select_leaf_node", node |-> mcts.root,
                   outcome |-> outcome_of(out), value |-> out.value]
    /\ UNCHANGED <<ROWS, heap, boards, offered, result, legal, last, budget,
                   evaluations, nodes, mcts>>

\* nodes[n].update(reward)
Update(n, reward) ==
    /\ total_visits(nodes, Len(nodes)) < MaxVisits
    /\ nodes' = update(nodes, n, reward)
    /\ call' = [op |-> "update", node |-> n, outcome |-> "returned", value |-> reward]
    /\ UNCHANGED <<ROWS, heap, boards, offered, result, legal, last, budget,
                   evaluations, mcts>>

\* mcts._backpropagate(nodes[n], reward)
Backpropagate(n, reward) ==
    /\ total_visits(nodes, Len(nodes)) + depth(nodes, n) < MaxVisits
    /\ nodes' = backpropagate(nodes, n, reward)
    /\ call' = [op |-> "_backpropagate", node |-> n, outcome |-> "returned",
                value |-> reward]
    /\ UNCHANGED <<ROWS, heap, boards, offered, result, legal, last, budget,
                   evaluations, mcts>>

\* MCTS._update_best_candidate
update_best_candidate(m, state, reward) ==
    IF reward > m.best_candidate_reward
    THEN [m EXCEPT !.best_candidate_reward = reward, !.best_candidate_state = state]
    ELSE m

\* mcts._execute_iteration(stats): selection, expansion of a node that has
\* untried actions, evaluation, best candidate, backpropagation; an exception
\* of a step leaves with what the earlier steps have done
ExecuteIteration ==
    /\ nodes # <<>>
    /\ Len(nodes) < MaxNodes
    /\ \E leaf \in {select_leaf_node(nodes, mcts.root)} :
          IF leaf.raised
          THEN /\ call' = [op |-> "_execute_iteration", node |-> 0,
                           outcome |-> "raised", value |-> 0]
               /\ UNCHANGED <<heap, boards, nodes, mcts>>
          ELSE \E grown \in {IF nodes[leaf.value].untried_actions # <<>>
                             THEN expand(tree, leaf.value)
                             ELSE [heap |-> heap, boards |-> boards, nodes |-> nodes,
                                   raised |-> FALSE, value |-> leaf.value]} :
                  IF grown.raised
                  THEN /\ call' = [op |-> "_execute_iteration", node |-> leaf.value,
                                   outcome |-> "raised", value |-> 0]
                       /\ heap' = grown.heap
                       /\ boards' = grown.boards
                       /\ nodes' = grown.nodes
                       /\ UNCHANGED mcts
                  ELSE \E oracle \in OracleOutcomes :
                       \E b \in {grown.boards[grown.nodes[grown.value].state]} :
                       \E state \in {deref(grown.heap, b)} :
                       \E out \in {evaluate_circuit(state, oracle)} :
                          /\ heap' = store(grown.heap, b, build_net_mapping_effect(state)).heap
                          /\ boards' = grown.boards
                          /\ IF out.outcome = "raised"
                             THEN /\ nodes' = grown.nodes
                                  /\ UNCHANGED mcts
                                  /\ call' = [op |-> "_execute_iteration",
                                              node |-> grown.value,
                                              outcome |-> "raised", value |-> 0]
                             ELSE /\ mcts' = update_best_candidate(
                                                mcts, grown.nodes[grown.value].state,
                                                out.reward)
                                  /\ nodes' = backpropagate(grown.nodes, grown.value,
                                                            out.reward)
                                  /\ call' = [op |-> "_execute_iteration",
                                              node |-> grown.value,
                                              outcome |-> "returned",
                                              value |-> out.reward]
    /\ UNCHANGED <<ROWS, offered, result, legal, last, budget, evaluations>>

NextTree ==
    \/ BuildStep
    \/ NewMCTS
    \/ \E n \in DOMAIN nodes : Expand(n)
    \/ \E n \in DOMAIN nodes : SelectChild(n)
    \/ SelectLeafNode
    \/ \E n \in DOMAIN nodes : \E reward \in RewardValues : Update(n, reward)
    \/ \E n \in DOMAIN nodes : \E reward \in RewardValues : Backpropagate(n, reward)
    \/ ExecuteIteration

SpecTree == InitTree /\ [][NextTree]_vars

\* the step is a call of the method op on node n, which had no child (for
\* select_child) or no untried action (for expand) when it was called
ContractViolated(op, n) ==
    /\ call'.op = op
    /\ call'.node = n
    /\ IF op = "select_child"
       THEN nodes[n].children = <<>>
       ELSE nodes[n].untried_actions = <<>>

\* C25: select_child on a node without children and expand on a node without
\* untried actions raise, return no node, and leave every node (children,
\* untried actions, visits, wins), every board and the MCTS object as they
\* were.
C25_ContractViolationsRaiseAndChangeNothing ==
    [][\A n \in DOMAIN nodes :
          (ContractViolated("select_child", n) \/ ContractViolated("expand", n)) =>
             /\ call'.outcome = "raised"
             /\ call'.value = 0
             /\ nodes' = nodes
             /\ boards' = boards
             /\ heap' = heap
             /\ mcts' = mcts]_vars

\* expand has raised on a node whose actions have all been expanded into
\* children
C25_Witness ==
    /\ call.op = "expand"
    /\ call.outcome = "raised"
    /\ nodes[call.node].untried_actions = <<>>
    /\ Len(nodes[call.node].children) = MaxRootActions

\* nodes made by expanding a Stop action
StopNodes == {n \in DOMAIN nodes : nodes[n].action_from_parent = <<"STOP">>}

\* C27: a node created by expanding a Stop action has no untried actions and
\* never gets children.
C27_StopNodeIsTerminal ==
    \A n \in StopNodes :
        /\ nodes[n].untried_actions = <<>>
        /\ nodes[n].children = <<>>

RECURSIVE ancestors(_, _)
\* the proper ancestors of a node, by its parent links
ancestors(ns, n) ==
    IF ns[n].parent = 0
    THEN {}
    ELSE {ns[n].parent} \cup ancestors(ns, ns[n].parent)

\* selection stops at such a node
StopsSelection(n) == nodes[n].untried_actions # <<>> \/ nodes[n].children = <<>>

\* the children of n, as a set
ChildrenOf(n) == {nodes[n].children[k] : k \in DOMAIN nodes[n].children}

\* c is a child of its parent with maximal UCT value; an unvisited child
\* outranks every visited one, and among equals the first is taken
TakenByMaximalUCT(c) ==
    LET p == nodes[c].parent
        position(d) == CHOOSE k \in DOMAIN nodes[p].children : nodes[p].children[k] = d
    IN /\ c \in ChildrenOf(p)
       /\ (\E d \in ChildrenOf(p) : nodes[d].visits = 0) => nodes[c].visits = 0
       /\ \A d \in ChildrenOf(p) :
             /\ ~calculate_uct_value(nodes, p, d).raised
             /\ ~uct_less(calculate_uct_value(nodes, p, c), calculate_uct_value(nodes, p, d))
             /\ position(d) < position(c) =>
                   uct_less(calculate_uct_value(nodes, p, d), calculate_uct_value(nodes, p, c))

\* C30: the node _select_leaf_node returns has an untried action or no child;
\* every proper ancestor of it, up to the root, has no untried action and at
\* least one child; and every node on the descent below the root is a child of
\* maximal UCT value of its parent, an unvisited child outranking every
\* visited one.
C30_SelectionStopsAtFirstLeaf ==
    (call.op = "_select_leaf_node" /\ call.outcome = "returned") =>
        LET leaf == call.value
        IN /\ leaf \in DOMAIN nodes
           /\ StopsSelection(leaf)
           /\ leaf = mcts.root \/ mcts.root \in ancestors(nodes, leaf)
           /\ \A a \in ancestors(nodes, leaf) : ~StopsSelection(a)
           /\ \A c \in ({leaf} \cup ancestors(nodes, leaf)) \ {mcts.root} :
                 TakenByMaximalUCT(c)

\* selection went down from a root whose children have all been visited, and
\* took a child that is not the first one
C30_Witness ==
    /\ call.op = "_select_leaf_node"
    /\ call.outcome = "returned"
    /\ nodes[call.value].parent = mcts.root
    /\ \A d \in ChildrenOf(mcts.root) : nodes[d].visits > 0
    /\ call.value # nodes[mcts.root].children[1]

RECURSIVE path_to(_, _)
\* the actions action_from_parent recorded from the root down to a node
path_to(ns, n) ==
    IF ns[n].parent = 0
    THEN <<>>
    ELSE Append(path_to(ns, ns[n].parent), ns[n].action_from_parent)

RECURSIVE reconstruct_circuit(_, _, _)
\* _reconstruct_circuit of main.py: the actions of the path applied in order,
\* each to the board the one before returned; an exception ends the loop
reconstruct_circuit(h, final_board, path) ==
    IF path = <<>>
    THEN [heap |-> h, board |-> final_board, error |-> FALSE]
    ELSE the({IF out.raised
              THEN [heap |-> h, board |-> final_board, error |-> TRUE]
              ELSE reconstruct_circuit(out.heap, out.board, Tail(path)) :
              out \in {apply_action(h, final_board, Head(path))}})

\* _reconstruct_circuit(initial_board.clone(), path) for the path of node n,
\* initial_board being the state of the root
replayed(n) ==
    the({[error |-> out.error, state |-> deref(out.heap, out.board)] :
         out \in {the({reconstruct_circuit(start.heap, start.board, path_to(nodes, n)) :
                       start \in {clone(heap, boards[nodes[mcts.root].state])}})}})

\* C21: for every node of the tree, the recorded actions from the root to the
\* node, applied in order to a copy of the root state, all succeed and give a
\* board with the placed components of the node's state, pins in the same
\* order, and the same pins in every row.
C21_ReplayReproducesNodeState ==
    \A n \in DOMAIN nodes :
        \E again \in {replayed(n)} : \E state \in {deref(heap, boards[nodes[n].state])} :
            /\ ~again.error
            /\ Len(path_to(nodes, n)) = depth(nodes, n)
            /\ again.state.placed_components = state.placed_components
            /\ again.state.row_pin_index = state.row_pin_index
            /\ again.state.placed_wires = state.placed_wires

\* a node two actions below the root, the second action placing something
C21_Witness ==
    \E n \in DOMAIN nodes :
        /\ depth(nodes, n) = 2
        /\ nodes[n].action_from_parent # <<"STOP">>
        /\ Len(deref(heap, boards[nodes[n].state]).placed_components)
              > Len(deref(heap, boards[nodes[mcts.root].state]).placed_components)

\* the actions recorded on the children of n, in the order of the children
child_actions(ns, n) ==
    [k \in DOMAIN ns[n].children |-> ns[ns[n].children[k]].action_from_parent]

\* a list without a repeated entry
NoRepeat(list) == \A i, j \in DOMAIN list : list[i] = list[j] => i = j

\* the child actions and the untried actions of n are disjoint, repeat
\* nothing, and are together the legal actions of the state of n
ActionsPartitioned(n) ==
    \E tried \in {child_actions(nodes, n)} :
    \E offer \in {legal_actions(deref(heap, boards[nodes[n].state]))} :
        /\ NoRepeat(tried)
        /\ NoRepeat(nodes[n].untried_actions)
        /\ actions_of(tried) \cap actions_of(nodes[n].untried_actions) = {}
        /\ actions_of(tried) \cup actions_of(nodes[n].untried_actions) = actions_of(offer)
        /\ Len(tried) + Len(nodes[n].untried_actions) = Len(offer)

\* the step is a call of expand on node n that returned child c
ExpandReturned(n, c) ==
    /\ call'.op = "expand"
    /\ call'.node = n
    /\ call'.outcome = "returned"
    /\ call'.value = c
    /\ Len(nodes') = Len(nodes) + 1

\* C31: an expand that returns removes exactly the last untried action of the
\* node and appends exactly one child, whose parent is the node, whose
\* action_from_parent is that action and whose state is the node's state with
\* the action applied; and after every step, for every node, the actions of
\* its children and its untried actions are disjoint, repeat no action, and
\* are together legal_actions() of the node's state.
C31_ExpansionBookkeeping ==
    /\ [](\A n \in DOMAIN nodes : ActionsPartitioned(n))
    /\ [][\A n \in DOMAIN nodes : \A c \in DOMAIN nodes' :
             ExpandReturned(n, c) =>
                \E action \in {nodes[n].untried_actions[Len(nodes[n].untried_actions)]} :
                   /\ c = Len(nodes')
                   /\ nodes'[n].untried_actions =
                         SubSeq(nodes[n].untried_actions, 1, Len(nodes[n].untried_actions) - 1)
                   /\ nodes'[n].children = Append(nodes[n].children, c)
                   /\ nodes'[c].parent = n
                   /\ nodes'[c].action_from_parent = action
                   /\ nodes'[c].children = <<>>
                   /\ \A m \in DOMAIN nodes : m # n => nodes'[m] = nodes[m]
                   /\ \E before \in {deref(heap, boards[nodes[n].state])} :
                      \E after \in {deref(heap', boards'[nodes'[c].state])} :
                         IF action = <<"STOP">>
                         THEN after.placed_components = before.placed_components
                         ELSE /\ Len(after.placed_components) = Len(before.placed_components) + 1
                              /\ SubSeq(after.placed_components, 1, Len(before.placed_components))
                                    = before.placed_components
                              /\ action_of(after.placed_components[Len(after.placed_components)])
                                    = action]_vars

\* expand has returned the second child of a node that still has untried
\* actions
C31_Witness ==
    /\ call.op = "expand"
    /\ call.outcome = "returned"
    /\ Len(nodes[call.node].children) = 2
    /\ nodes[call.node].untried_actions # <<>>
    /\ nodes[call.value].parent = call.node

\* the tree without its statistics: state, parent, action, children and
\* untried actions of every node
shape(ns) ==
    [n \in DOMAIN ns |->
        [state |-> ns[n].state, parent |-> ns[n].parent,
         action_from_parent |-> ns[n].action_from_parent,
         children |-> ns[n].children, untried_actions |-> ns[n].untried_actions]]

\* C32: _backpropagate(node, r) adds exactly 1 to visits and exactly r to wins
\* at the node and at each of its ancestors up to the root, leaves visits and
\* wins of every other node as they were, and leaves the shape of the tree, the
\* boards and the best candidate unchanged.
C32_BackpropagationUpdatesPathOnly ==
    [][call'.op = "_backpropagate" =>
          /\ call'.outcome = "returned"
          /\ DOMAIN nodes' = DOMAIN nodes
          /\ \A m \in DOMAIN nodes :
                IF m \in ancestors(nodes, call'.node) \cup {call'.node}
                THEN /\ nodes'[m].visits = nodes[m].visits + 1
                     /\ nodes'[m].wins = nodes[m].wins + call'.value
                ELSE /\ nodes'[m].visits = nodes[m].visits
                     /\ nodes'[m].wins = nodes[m].wins
          /\ mcts.root \in ancestors(nodes, call'.node) \cup {call'.node}
          /\ shape(nodes') = shape(nodes)
          /\ UNCHANGED <<heap, boards, mcts>>]_vars

\* a reward has been backpropagated from a child of the root while a sibling
\* of that child, off the path, had been visited before
C32_Witness ==
    /\ call.op = "_backpropagate"
    /\ nodes[call.node].parent = mcts.root
    /\ nodes[call.node].visits >= 1
    /\ nodes[mcts.root].visits >= 1
    /\ \E m \in DOMAIN nodes :
          /\ m # call.node
          /\ nodes[m].parent = mcts.root
          /\ nodes[m].visits >= 1

\* the greater of two rewards
max_reward(a, b) == IF a >= b THEN a ELSE b

RECURSIVE children_visits(_, _)
\* the visits of the nodes of a list of children, added up
children_visits(ns, list) ==
    IF list = <<>>
    THEN 0
    ELSE ns[Head(list)].visits + children_visits(ns, Tail(list))

\* C33: every iteration of search completes: it selects, expands at most one
\* node, evaluates once and backpropagates once, so that it returns, adds at
\* most one node to the tree, adds exactly one visit to the root, and leaves
\* the node it evaluated with at least one visit and every node with at least
\* as many visits as its children have together.
C33_EveryIterationCompletes ==
    [][call'.op = "_execute_iteration" =>
          /\ call'.outcome = "returned"
          /\ Len(nodes') \in {Len(nodes), Len(nodes) + 1}
          /\ nodes'[mcts.root].visits = nodes[mcts.root].visits + 1
          /\ nodes'[call'.node].visits >= 1
          /\ \A n \in DOMAIN nodes' :
                nodes'[n].visits >= children_visits(nodes', nodes'[n].children)]_vars

\* C34: every iteration leaves best_candidate_reward at the greater of its
\* former value and the reward the iteration's evaluation returned, never
\* lower than before, and best_candidate_state at the state evaluated in this
\* iteration when its reward is the new maximum and at the former state
\* otherwise, whatever the visits of the nodes are.
C34_BestCandidateIsMaximumSoFar ==
    [][call'.op = "_execute_iteration" =>
          /\ call'.outcome = "returned"
          /\ mcts'.best_candidate_reward =
                max_reward(mcts.best_candidate_reward, call'.value)
          /\ mcts'.best_candidate_reward >= mcts.best_candidate_reward
          /\ mcts'.best_candidate_state =
                IF call'.value > mcts.best_candidate_reward
                THEN nodes'[call'.node].state
                ELSE mcts.best_candidate_state
          /\ mcts'.root = mcts.root]_vars

----------------------------------------------------------------------------
\* MCTS.get_best_solution on trees whose statistics come from
\* _backpropagate.  An average reward wins / visits is kept as the fraction
\* [num, den]; fractions are compared by cross multiplication.

\* the root for the search: an npn with the collector on the input net, the
\* base on the output net and a resistor from the input net to ground; the
\* wire from the emitter row to the supply row, the last action offered,
\* completes the circuit
ScriptBeforeSupply ==
    << <<"wire", VIN_ROW, WORK_START_ROW + 1>>,
       <<"resistor", WORK_START_ROW>>,
       <<"npn", WORK_START_ROW + 1>>,
       <<"wire", WORK_START_ROW + 2, VOUT_ROW>>,
       <<"wire", VSS_ROW, WORK_START_ROW>> >>

SolutionScripts == {ScriptStage, ScriptBeforeSupply}

MaxRootVisits == 5

\* MCTS._is_valid_complete_circuit
is_valid_complete_circuit(t, n) ==
    \E self \in {deref(t.heap, t.boards[t.nodes[n].state])} :
        /\ is_complete_and_valid(self)
        /\ Cardinality({i \in DOMAIN self.placed_components :
                           self.placed_components[i].type \notin {"wire", "vin", "vout"}}) >= 1

\* MCTS._calculate_average_reward: wins / visits, 0.0 for an unvisited node
calculate_average_reward(ns, n) ==
    IF ns[n].visits > 0
    THEN [num |-> ns[n].wins, den |-> ns[n].visits]
    ELSE [num |-> 0, den |-> 1]

\* a < b for two averages
average_less(a, b) == a.num * b.den < b.num * a.den

\* a threshold of one visit at every depth
calculate_min_visits_threshold_always_one(depth_of_parent) == 1

\* MCTS._calculate_min_visits_threshold
calculate_min_visits_threshold(depth_of_parent) ==
    IF 5 - depth_of_parent > 1 THEN 5 - depth_of_parent ELSE 1

\* MCTS._extend_path: the action of the child is appended unless it is falsy
extend_path(path, action) ==
    IF action # NoAction /\ action # <<>> THEN Append(path, action) ELSE path

RECURSIVE search_for_circuits(_, _, _)
RECURSIVE search_children(_, _, _, _)
\* MCTS._search_for_circuits: the node itself when it is a valid complete
\* circuit, then what the search finds below each child with enough visits,
\* in the order of the children
search_for_circuits(t, n, path) ==
    (IF is_valid_complete_circuit(t, n)
     THEN <<[path |-> path, reward |-> calculate_average_reward(t.nodes, n)]>>
     ELSE <<>>)
       \o search_children(t, n, path, 1)

\* the loop over node.children of _search_for_circuits, from the k-th child
search_children(t, n, path, k) ==
    IF k > Len(t.nodes[n].children)
    THEN <<>>
    ELSE (IF t.nodes[t.nodes[n].children[k]].visits
                >= calculate_min_visits_threshold(Len(path))
          THEN search_for_circuits(
                  t, t.nodes[n].children[k],
                  extend_path(path, t.nodes[t.nodes[n].children[k]].action_from_parent))
          ELSE <<>>)
            \o search_children(t, n, path, k + 1)

\* max(list, key): the first entry that no entry exceeds
first_maximal(list, less(_, _)) ==
    list[CHOOSE i \in DOMAIN list :
            /\ \A j \in DOMAIN list : ~less(list[i], list[j])
            /\ \A j \in 1 .. i - 1 : less(list[j], list[i])]

\* MCTS._select_best_child: among the children with five visits the first of
\* the best average reward; without such a child the first most visited one
select_best_child(ns, n) ==
    LET valid_children == SelectSeq(ns[n].children, LAMBDA c : ns[c].visits >= 5)
        fewer_visits(a, b) == ns[a].visits < ns[b].visits
        lower_average(a, b) == average_less(calculate_average_reward(ns, a),
                                            calculate_average_reward(ns, b))
    IN IF valid_children = <<>>
       THEN first_maximal(ns[n].children, fewer_visits)
       ELSE first_maximal(valid_children, lower_average)

RECURSIVE greedy_descent(_, _, _)
\* the loop of MCTS._greedy_path_selection from current_node
greedy_descent(ns, current_node, best_path) ==
    IF ns[current_node].children = <<>>
    THEN [path |-> best_path, reward |-> calculate_average_reward(ns, current_node)]
    ELSE the({greedy_descent(ns, best_child,
                             extend_path(best_path, ns[best_child].action_from_parent)) :
              best_child \in {select_best_child(ns, current_node)}})

\* MCTS._greedy_path_selection
greedy_path_selection(ns, root) == greedy_descent(ns, root, <<>>)

\* MCTS.get_best_solution
get_best_solution(t, root) ==
    the({IF all_circuits # <<>>
         THEN first_maximal(all_circuits,
                            LAMBDA a, b : average_less(a.reward, b.reward))
         ELSE greedy_path_selection(t.nodes, root) :
         all_circuits \in {search_for_circuits(t, root, <<>>)}})

InitSolution ==
    /\ ROWS = BoardRows
    /\ NoSearch
    /\ heap = fresh_chain.heap
    /\ boards = fresh_chain.boards
    /\ offered = legal_actions(NewBreadboard)
    /\ result = "none"
    /\ legal = TRUE
    /\ last = <<"none">>
    /\ budget = MaxExtraActions
    /\ evaluations = <<>>

\* the board the search will start from is built first
BuildRoot == ScriptStepOf(SolutionScripts)

\* mcts = MCTS(current)
NewSolutionMCTS == NewMCTSOn(SolutionScripts)

\* mcts._backpropagate(nodes[n], reward), as the last step of an iteration
BackpropagateReward(n, reward) ==
    /\ nodes[mcts.root].visits < MaxRootVisits
    /\ nodes' = backpropagate(nodes, n, reward)
    /\ call' = [op |-> "_backpropagate", node |-> n, outcome |-> "returned",
                value |-> reward]
    /\ UNCHANGED <<ROWS, heap, boards, offered, result, legal, last, budget,
                   evaluations, mcts>>

\* mcts.get_best_solution()
GetBestSolution ==
    /\ nodes # <<>>
    /\ call' = [op |-> "get_best_solution", node |-> mcts.root,
                outcome |-> "returned", value |-> get_best_solution(tree, mcts.root)]
    /\ UNCHANGED <<ROWS, heap, boards, offered, result, legal, last, budget,
                   evaluations, nodes, mcts>>

NextSolution ==
    \/ BuildRoot
    \/ NewSolutionMCTS
    \/ \E n \in DOMAIN nodes : Expand(n)
    \/ \E n \in DOMAIN nodes : \E reward \in RewardValues : BackpropagateReward(n, reward)
    \/ GetBestSolution

SpecSolution == InitSolution /\ [][NextSolution]_vars

\* the nodes that qualify: a complete and valid state with a component, and
\* enough visits at every node of the path below the root
Qualifying ==
    {n \in DOMAIN nodes :
        /\ is_valid_complete_circuit(tree, n)
        /\ \A m \in (ancestors(nodes, n) \cup {n}) \ {mcts.root} :
              \E d \in {depth(nodes, nodes[m].parent)} :
                 nodes[m].visits >= (IF 5 - d >= 1 THEN 5 - d ELSE 1)}

\* the returned pair is the path of node n with wins / visits of n
ReturnsPathAndAverageOf(n) ==
    /\ call.value.path = path_to(nodes, n)
    /\ nodes[n].visits > 0
    /\ call.value.reward.num * nodes[n].visits = nodes[n].wins * call.value.reward.den

\* the returned pair is the path of an unvisited node n with the reward 0.0
ReturnsPathAndZeroOf(n) ==
    /\ call.value.path = path_to(nodes, n)
    /\ nodes[n].visits = 0
    /\ call.value.reward.num = 0

\* wins / visits of node a is less than that of node b (0 when unvisited)
LowerAverage(a, b) ==
    average_less(calculate_average_reward(nodes, a), calculate_average_reward(nodes, b))

\* the returned path, replayed on a copy of the root state, succeeds and ends
\* on a complete and valid board
ReturnedPathReplaysToCompleteBoard ==
    \E start \in {clone(heap, boards[nodes[mcts.root].state])} :
    \E out \in {reconstruct_circuit(start.heap, start.board, call.value.path)} :
        /\ ~out.error
        /\ is_complete_and_valid(deref(out.heap, out.board))

\* C35 as stated: when a node qualifies, get_best_solution returns the path
\* and cumulative_reward / visits of a qualifying node of maximal average
\* reward, and the path replays to a complete and valid board; when no node
\* qualifies it returns the greedy descent.
C35_BestSolutionIsBestQualifying ==
    call.op = "get_best_solution" =>
       IF Qualifying # {}
       THEN /\ \E n \in Qualifying :
                  /\ ReturnsPathAndAverageOf(n)
                  /\ \A m \in Qualifying : ~LowerAverage(n, m)
            /\ ReturnedPathReplaysToCompleteBoard
       ELSE call.value = greedy_path_selection(nodes, mcts.root)

\* C35, amended: as stated, with the average reward of a node that has no
\* visit (only the root can qualify without one) taken as 0.0.
C35_BestSolutionIsBestQualifyingOrZero ==
    call.op = "get_best_solution" =>
       IF Qualifying # {}
       THEN /\ \E n \in Qualifying :
                  /\ ReturnsPathAndAverageOf(n) \/ ReturnsPathAndZeroOf(n)
                  /\ \A m \in Qualifying : ~LowerAverage(n, m)
            /\ ReturnedPathReplaysToCompleteBoard
       ELSE call.value = greedy_path_selection(nodes, mcts.root)

\* get_best_solution has returned the path of a grandchild of the root that
\* qualifies together with its parent and has the higher average of the two
C35_Witness ==
    /\ call.op = "get_best_solution"
    /\ mcts.root \notin Qualifying
    /\ Cardinality(Qualifying) = 2
    /\ Len(call.value.path) = 2
    /\ \E n \in Qualifying : \E m \in Qualifying : LowerAverage(m, n)

\* the pins of the placed components, each as <<component index, pin index>>
PinPositions(self) ==
    {<<i, j>> : i \in DOMAIN self.placed_components, j \in 1 .. 3} \cap
    {p \in (DOMAIN self.placed_components) \X (1 .. 3) :
        p[2] \in DOMAIN self.placed_components[p[1]].pins}

\* the row of a pin
PinRow(self, p) == self.placed_components[p[1]].pins[p[2]]

\* pin p comes before pin q when the components are gone through in the
\* order of their placement and the pins of each in pin order
PinBefore(p, q) == p[1] < q[1] \/ (p[1] = q[1] /\ p[2] < q[2])

\* the net of a row: the rows a path of placed wires joins to it
NetOf(self, row) == wire_reach(self, {row})

\* the nets without a rail that have a pin before every pin of `net`
NetsAppearingBefore(self, net) ==
    {NetOf(self, PinRow(self, p)) :
        p \in {x \in PinPositions(self) :
                  /\ PinRow(self, x) \notin net
                  /\ VSS_ROW \notin NetOf(self, PinRow(self, x))
                  /\ VDD_ROW \notin NetOf(self, PinRow(self, x))
                  /\ \A q \in PinPositions(self) :
                        PinRow(self, q) \in net => PinBefore(x, q)}}

\* the name the claim gives to the net of a row
NetNameOf(self, row) ==
    IF VSS_ROW \in NetOf(self, row) THEN GND_NET
    ELSE IF VDD_ROW \in NetOf(self, row) THEN VDD_NET
    ELSE <<"n", Cardinality(NetsAppearingBefore(self, NetOf(self, row)))>>

LineType(line) ==
    CHOOSE t \in CatalogTypes \ {"vin", "vout", "wire"} :
        /\ spice_line_tail(t) = line.tail
        /\ comp_prefix(t) = line.id[1]

\* the position of a type in the component catalog
CatalogRank(t) == CHOOSE i \in DOMAIN COMPONENT_CATALOG : COMPONENT_CATALOG[i] = t

\* the n-th of the non-wire, non-probe components in the order of placement
NthPlacedPart(self, n) ==
    CHOOSE k \in active_component_indices(self) :
        Cardinality({m \in active_component_indices(self) : m < k}) = n - 1

\* C37 as stated: the netlist of a complete and valid board has exactly one
\* device line per non-wire, non-probe component, and the lines are in the
\* order of the catalog (resistor, capacitor, inductor, diode, nmos3, pmos3,
\* npn, pnp) whatever the order of placement.
C37_DeviceLinesInCatalogOrder ==
    \A self \in {cur} :
       is_complete_and_valid(self) =>
          \E lines \in {to_netlist(self).components} :
             /\ Len(lines) = Cardinality(active_component_indices(self))
             /\ \A n, m \in DOMAIN lines :
                   n < m => CatalogRank(LineType(lines[n])) <= CatalogRank(LineType(lines[m]))

\* C37, amended: the netlist of a complete and valid board has exactly one
\* device line per non-wire, non-probe component, and the lines are in the
\* order in which the components were placed: the n-th line is of the type of
\* the n-th such component and carries the nets of its pins in pin order.
C37_DeviceLinesInPlacementOrder ==
    \A self \in {cur} :
       is_complete_and_valid(self) =>
          \E lines \in {to_netlist(self).components} :
          \E row_to_net \in {build_net_mapping(self)} :
             /\ Len(lines) = Cardinality(active_component_indices(self))
             /\ \A n \in DOMAIN lines :
                   \E comp \in {self.placed_components[NthPlacedPart(self, n)]} :
                      /\ LineType(lines[n]) = comp.type
                      /\ lines[n].pin_nets =
                            [j \in DOMAIN comp.pins |-> row_to_net[comp.pins[j]]]

\* a complete and valid board on which a transistor was placed before a
\* resistor, with its netlist of two or more device lines
C37_Witness ==
    /\ is_complete_and_valid(cur)
    /\ Len(to_netlist(cur).components) >= 2
    /\ \E k, m \in active_component_indices(cur) :
          /\ k < m
          /\ cur.placed_components[k].type = "nmos3"
          /\ cur.placed_components[m].type = "resistor"

\* the nets of the input probe, the output probe, the ground rail and the
\* supply rail, each the set of rows that wires join to the row
FourNets(self) ==
    <<NetOf(self, VIN_ROW), NetOf(self, VOUT_ROW), NetOf(self, VSS_ROW), NetOf(self, VDD_ROW)>>

FourNetsDistinct(self) ==
    \A i, j \in 1 .. 4 : i # j => FourNets(self)[i] # FourNets(self)[j]

\* C38: a board that is complete and valid, or that offers Stop, has its
\* input net, output net, ground net and supply net pairwise distinct; a
\* board with the rails wired into one net, or with a probe on the net of a
\* rail or of the other probe, is neither complete and valid nor offers Stop.
C38_ValidBoardsKeepFourNetsApart ==
    \A self \in {cur} :
       (is_complete_and_valid(self) \/ <<"STOP">> \in actions_of(legal_actions(self)))
          => FourNetsDistinct(self)

\* a complete and valid board that offers Stop, with wires on all four nets
C38_Witness ==
    /\ is_complete_and_valid(cur)
    /\ <<"STOP">> \in actions_of(legal_actions(cur))
    /\ \A i \in 1 .. 4 : Cardinality(FourNets(cur)[i]) >= 2

\* the placed non-wire, non-probe components whose pins are all on one net
CollapsedParts(self) ==
    {k \in active_component_indices(self) :
        Cardinality(nets_of(self, comp_rows(self.placed_components[k]))) < 2}

----------------------------------------------------------------------------
\* Construction to the end: on the smallest board a sequence of legal actions
\* places a resistor and wires the rows around it, and from there a builder
\* applies any legal action other than Stop for as long as legal_actions()
\* offers one.

ScriptCrowded ==
    << <<"wire", VIN_ROW, WORK_START_ROW>>,
       <<"resistor", WORK_START_ROW>>,
       <<"wire", WORK_START_ROW + 1, VDD_ROW>>,
       <<"wire", WORK_START_ROW + 1, VOUT_ROW>>,
       <<"wire", VSS_ROW, VDD_ROW>>,
       <<"wire", VSS_ROW, WORK_START_ROW>>,
       <<"wire", WORK_START_ROW, VOUT_ROW>> >>

InitConstruction ==
    /\ ROWS = MIN_ROWS
    /\ NoSearch
    /\ heap = fresh_chain.heap
    /\ boards = fresh_chain.boards
    /\ offered = legal_actions(NewBreadboard)
    /\ result = "none"
    /\ legal = TRUE
    /\ last = <<"none">>
    /\ budget = MaxExtraActions
    /\ evaluations = <<>>

\* the next action of the script
CrowdStep == ScriptStepOf({ScriptCrowded})

\* the actions legal_actions() returned for the current board, Stop left out
construction_actions == actions_of(offered) \ {<<"STOP">>}

\* b = b.apply_action(a) for any a of b.legal_actions() other than Stop, once
\* the script is done
ConstructionStep ==
    /\ Len(boards) > Len(ScriptCrowded)
    /\ \E action \in construction_actions : ApplyAction(action, TRUE, 0)

NextConstruction == CrowdStep \/ ConstructionStep

\* the builder has a step to take: the script is not finished, or
\* legal_actions() offers a placement or a wire
CanConstruct ==
    \/ Len(boards) <= Len(ScriptCrowded)
    \/ construction_actions # {}

\* the builder goes on while it has a step to take: weak fairness of
\* NextConstruction, WF_vars(NextConstruction), with the enabling condition
\* written out as CanConstruct
SpecConstruction ==
    /\ InitConstruction
    /\ [][NextConstruction]_vars
    /\ (<>[]CanConstruct => []<><<NextConstruction>>_vars)

\* the key under which an applied action counts: kind and start row of a
\* placement, the unordered pair of rows of a wire
ActionKey(a) == IF a[1] = "wire" THEN <<"wire", wire_key(a[2], a[3])>> ELSE a

\* no placement and no wire pair has been applied twice on the way to the
\* current board
KeysAppliedOnce ==
    \E done \in {actions_applied(cur)} :
       \A i, j \in DOMAIN done : ActionKey(done[i]) = ActionKey(done[j]) => i = j

\* legal_actions() of the current board offers no placement and no wire
ConstructionExhausted ==
    /\ offered = legal_actions(cur)
    /\ construction_actions = {}

====
